---- MODULE Spec2Model ----
(***************************************************************************)
(* pen-audit: the reconciliation store (state.py), the aggregate           *)
(* statistics (scoring.py), the codebase matcher (codebase_matcher.py)     *)
(* and the persistence of the state file (load_state / save_state).        *)
(*                                                                         *)
(* Python strings are TLA+ strings; a dict is a sequence of records in     *)
(* insertion order (Python dicts iterate in insertion order).              *)
(***************************************************************************)
EXTENDS Integers, Sequences, FiniteSets, TLC

VARIABLES
    state,      \* the in-memory State dict the store operations mutate
    pre,        \* history: state["features"] as it was before the last operation
    last,       \* history: the last operation, its arguments and its return value
    target,     \* the content of the state file (.pen-audit/state.json)
    backup,     \* the content of the sibling backup (.pen-audit/state.json.bak)
    tmp,        \* per process: the content of the temp file of its save_state call
    pc,         \* per process: its position in save_state
    content,    \* per process: the serialized state its save_state call writes
    before,     \* history, per process: the target as it was when the call began
    src,        \* per process: what shutil.copy2 read from the target
    err,        \* history, per process: the call caught an OSError (fallback path)
    outcome,    \* history, per process: how its last save_state call ended
    saves,      \* the number of save_state calls begun so far
    faults,     \* the number of OSErrors raised so far
    loaded,     \* history: the last load_state call, what it saw and its result
    call        \* history: the last call of a pure function, its argument and result

storeVars == <<state, pre, last>>
diskVars  == <<target, backup, tmp, pc, content, before, src, err, outcome,
               saves, faults, loaded>>
vars      == <<state, pre, last, target, backup, tmp, pc, content, before, src,
               err, outcome, saves, faults, loaded, call>>

(***************************************************************************)
(* Bounds of the model.                                                    *)
(***************************************************************************)
MaxScans == 3
MaxFresh == 2
MaxSaves == 3
MaxFaults == 2
MaxLabels == 3
MaxCount == 1
MaxTop == 2
MaxKids == 2
MaxFeatures == 3

(***************************************************************************)
(* String helpers (Python str operations).                                 *)
(***************************************************************************)
\* Python `p in s` for strings
Contains(s, p) ==
    \/ Len(p) = 0
    \/ \E i \in 1..(Len(s) - Len(p) + 1) : SubSeq(s, i, i + Len(p) - 1) = p

\* sum(f[x] for x in S)
RECURSIVE SumOver(_, _)
SumOver(S, f) ==
    IF S = {} THEN 0
    ELSE LET x == CHOOSE y \in S : TRUE
         IN  f[x] + SumOver(S \ {x}, f)

(***************************************************************************)
(* state.py                                                                *)
(***************************************************************************)
CURRENT_VERSION == 1

None == "None"

\* a feature whose id also holds the time of detection
make_feature_Timed(detector, screen_id, name, tier, category, summary, detail, now) ==
    [id         |-> detector \o "::" \o screen_id \o "::" \o name
                        \o SubSeq("0123456789", now + 1, now + 1),
     detector   |-> detector,
     screen_id  |-> screen_id,
     name       |-> name,
     tier       |-> tier,
     category   |-> category,
     summary    |-> summary,
     detail     |-> detail,
     status     |-> "open",
     first_seen |-> now,
     last_seen  |-> now]

\* make_feature: the id is detector::screen_id::name, or detector::screen_id
\* when the name is empty; every fresh feature is "open".
make_feature(detector, screen_id, name, tier, category, summary, detail, now) ==
    [id         |-> IF name # "" THEN detector \o "::" \o screen_id \o "::" \o name
                                 ELSE detector \o "::" \o screen_id,
     detector   |-> detector,
     screen_id  |-> screen_id,
     name       |-> name,
     tier       |-> tier,
     category   |-> category,
     summary    |-> summary,
     detail     |-> detail,
     status     |-> "open",
     first_seen |-> now,
     last_seen  |-> now]

(***************************************************************************)
(* scoring.py                                                              *)
(***************************************************************************)
\* TIER_WEIGHTS.get(tier, 2)
TierWeight(tier) ==
    CASE tier = 1 -> 1
      [] tier = 2 -> 2
      [] tier = 3 -> 4
      [] tier = 4 -> 8
      [] OTHER    -> 2

\* a percentage cut off after the first decimal
RoundPct_Truncate(num, den) == (1000 * num) \div den

\* round((num / den) * 100, 1), in tenths of a percent; a tie goes to the even tenth
RoundPct(num, den) ==
    LET q == (1000 * num) \div den
        r == (1000 * num) % den
    IN  IF 2 * r < den THEN q
        ELSE IF 2 * r > den THEN q + 1
        ELSE IF q % 2 = 0 THEN q ELSE q + 1

CountStatus(features, status) ==
    Cardinality({i \in 1..Len(features) : features[i].status = status})

\* compute_completion: features is the list of the mapping's values
compute_completion(features) ==
    LET tiers        == {features[i].tier : i \in 1..Len(features)}
        by_tier      == [t \in tiers |->
                           [total |-> Cardinality({i \in 1..Len(features) :
                                                     features[i].tier = t}),
                            done  |-> Cardinality({i \in 1..Len(features) :
                                                     /\ features[i].tier = t
                                                     /\ features[i].status = "implemented"})]]
        total        == Len(features)
        implemented  == CountStatus(features, "implemented")
        deferred     == CountStatus(features, "deferred")
        out_of_scope == CountStatus(features, "out_of_scope")
        total_effort == SumOver(tiers, [t \in tiers |-> TierWeight(t) * by_tier[t].total])
        done_effort  == SumOver(tiers, [t \in tiers |-> TierWeight(t) * by_tier[t].done])
    IN  [total        |-> total,
         implemented  |-> implemented,
         deferred     |-> deferred,
         out_of_scope |-> out_of_scope,
         open         |-> total - implemented - deferred - out_of_scope,
         pct          |-> IF total > 0 THEN RoundPct(implemented, total) ELSE 0,
         by_tier      |-> by_tier,
         effort_score |-> IF total_effort > 0 THEN RoundPct(done_effort, total_effort) ELSE 0]

(***************************************************************************)
(* state.py: the store                                                     *)
(***************************************************************************)
\* _empty_state; `created` is the time of construction, stats is {} until the
\* first recomputation
empty_state ==
    [version     |-> CURRENT_VERSION,
     created     |-> 0,
     last_scan   |-> None,
     scan_count  |-> 0,
     source_file |-> None,
     features    |-> <<>>,
     components  |-> <<>>,
     stats       |-> <<>>]

\* a lookup that does not find a feature marked removed_from_design
IndexOf_SkipRemoved(features, fid) ==
    IF \E i \in 1..Len(features) :
          features[i].id = fid /\ features[i].status # "removed_from_design"
    THEN CHOOSE i \in 1..Len(features) :
            features[i].id = fid /\ features[i].status # "removed_from_design"
    ELSE 0

\* the position of fid among the mapping's keys, 0 when it is no key
IndexOf(features, fid) ==
    IF \E i \in 1..Len(features) : features[i].id = fid
    THEN CHOOSE i \in 1..Len(features) : features[i].id = fid
    ELSE 0

Ids(features) == {features[i].id : i \in 1..Len(features)}

\* a merge that takes the status of the fresh record too
UpdateInPlace_WithStatus(old, f, now) ==
    [old EXCEPT !.last_seen = now,
                !.tier      = f.tier,
                !.summary   = f.summary,
                !.detail    = f.detail,
                !.status    = f.status]

\* merge_scan, the "existing id" branch: tier, summary, detail and last_seen are
\* overwritten, the status is not
UpdateInPlace(old, f, now) ==
    [old EXCEPT !.last_seen = now,
                !.tier      = f.tier,
                !.summary   = f.summary,
                !.detail    = f.detail]

\* a count that takes every fresh record for a new one
CountNew_Always(new_count, known) == new_count + 1

\* merge_scan, first loop: new_count += 1 in the else branch only
CountNew(new_count, known) == IF known THEN new_count ELSE new_count + 1

\* merge_scan, first loop: an existing id is updated in place, a new id is
\* inserted and counted
RECURSIVE MergeFresh(_, _, _, _)
MergeFresh(existing, fresh, now, new_count) ==
    IF fresh = <<>> THEN [features |-> existing, new |-> new_count]
    ELSE LET f == Head(fresh)
             k == IndexOf(existing, f.id)
         IN  IF k # 0
             THEN MergeFresh([existing EXCEPT ![k] = UpdateInPlace(existing[k], f, now)],
                             Tail(fresh), now, CountNew(new_count, TRUE))
             ELSE MergeFresh(Append(existing, f), Tail(fresh), now,
                             CountNew(new_count, FALSE))

\* an auto-resolve that does not look at the status
Disappeared_AnyStatus(f, current_ids) == f.id \notin current_ids

\* merge_scan, second loop: a feature that disappeared from the design and is
\* still open becomes removed_from_design
Disappeared(f, current_ids) == f.id \notin current_ids /\ f.status = "open"

\* an auto-resolve that drops the disappeared features from the mapping
AutoResolve_Delete(existing, current_ids) ==
    SelectSeq(existing, LAMBDA f : ~Disappeared(f, current_ids))

AutoResolve(existing, current_ids) ==
    [i \in 1..Len(existing) |->
        IF Disappeared(existing[i], current_ids)
        THEN [existing[i] EXCEPT !.status = "removed_from_design"]
        ELSE existing[i]]

\* _recompute_stats
recompute_stats(st) == [st EXCEPT !.stats = compute_completion(st.features)]

\* a merge whose summary counts the fresh records, not their ids
merge_scan_CountsRecords(st, features, source_file, now) ==
    LET current_ids == Ids(features)
        merged      == MergeFresh(st.features, features, now, 0)
        resolved    == AutoResolve(merged.features, current_ids)
        removed     == Cardinality({i \in 1..Len(merged.features) :
                                      Disappeared(merged.features[i], current_ids)})
        st1         == [st EXCEPT !.last_scan   = now,
                                  !.scan_count  = st.scan_count + 1,
                                  !.source_file = IF source_file # "" THEN source_file
                                                  ELSE st.source_file,
                                  !.features    = resolved]
    IN  [state |-> recompute_stats(st1),
         ret   |-> [new |-> merged.new, removed |-> removed,
                    total |-> Len(features)]]

\* merge_scan: the new state and the returned diff summary
merge_scan(st, features, source_file, now) ==
    LET current_ids == Ids(features)
        merged      == MergeFresh(st.features, features, now, 0)
        resolved    == AutoResolve(merged.features, current_ids)
        removed     == Cardinality({i \in 1..Len(merged.features) :
                                      Disappeared(merged.features[i], current_ids)})
        st1         == [st EXCEPT !.last_scan   = now,
                                  !.scan_count  = st.scan_count + 1,
                                  !.source_file = IF source_file # "" THEN source_file
                                                  ELSE st.source_file,
                                  !.features    = resolved]
    IN  [state |-> recompute_stats(st1),
         ret   |-> [new |-> merged.new, removed |-> removed,
                    total |-> Cardinality(current_ids)]]

\* a selection by the whole id only
Matches_IdOnly(f, pattern) == f.id = pattern

\* resolve_feature: which features the pattern selects
Matches(f, pattern) ==
    f.id = pattern \/ f.screen_id = pattern \/ Contains(f.id, pattern)

\* a resolve that does not look at the status
Resolvable_AnyStatus(f, pattern) == Matches(f, pattern)

Resolvable(f, pattern) == f.status = "open" /\ Matches(f, pattern)

\* resolve_feature: the new state and the returned list of resolved ids
resolve_feature(st, pattern, status) ==
    LET features == st.features
        hit      == SelectSeq(features, LAMBDA f : Resolvable(f, pattern))
        updated  == [i \in 1..Len(features) |->
                        IF Resolvable(features[i], pattern)
                        THEN [features[i] EXCEPT !.status = status]
                        ELSE features[i]]
    IN  [state |-> recompute_stats([st EXCEPT !.features = updated]),
         ret   |-> [i \in 1..Len(hit) |-> hit[i].id]]

(***************************************************************************)
(* codebase_matcher.py                                                     *)
(***************************************************************************)
UpperLetters == "ABCDEFGHIJKLMNOPQRSTUVWXYZ"
LowerLetters == "abcdefghijklmnopqrstuvwxyz"
Digits       == "0123456789"

Char(s, i) == SubSeq(s, i, i)

\* the set of the characters of a string
CharSet(str) == {Char(str, i) : i \in 1..Len(str)}

UpperSet == CharSet(UpperLetters)
AlnumLow == CharSet(LowerLetters) \cup CharSet(Digits)
\* \s of the regular expressions, and what str.strip() strips
SpaceSet == CharSet(" \t\n")

\* str.lower() on one character
LowerOf ==
    [c \in UpperSet |->
        Char(LowerLetters, CHOOSE i \in 1..Len(UpperLetters) : Char(UpperLetters, i) = c)]

RECURSIVE Lower(_)
Lower(s) ==
    IF Len(s) = 0 THEN ""
    ELSE (IF Char(s, 1) \in UpperSet THEN LowerOf[Char(s, 1)] ELSE Char(s, 1))
         \o Lower(Tail(s))

\* str.lstrip / str.rstrip / str.strip of the characters in `chars`
RECURSIVE LStrip(_, _)
LStrip(s, chars) ==
    IF Len(s) > 0 /\ Char(s, 1) \in chars THEN LStrip(Tail(s), chars) ELSE s

RECURSIVE RStrip(_, _)
RStrip(s, chars) ==
    IF Len(s) > 0 /\ Char(s, Len(s)) \in chars
    THEN RStrip(SubSeq(s, 1, Len(s) - 1), chars) ELSE s

Strip(s, chars) == RStrip(LStrip(s, chars), chars)

\* re.sub(r'[^chars]', '', s): only the characters in `chars` are kept
RECURSIVE Keep(_, _)
Keep(s, chars) ==
    IF Len(s) = 0 THEN ""
    ELSE (IF Char(s, 1) \in chars THEN Char(s, 1) ELSE "") \o Keep(Tail(s), chars)

\* re.sub(r'[chars]+', '-', s): every maximal run of `chars` becomes one hyphen
RECURSIVE RunsToHyphen(_, _)
RunsToHyphen(s, chars) ==
    IF Len(s) = 0 THEN ""
    ELSE IF Char(s, 1) \in chars THEN "-" \o RunsToHyphen(LStrip(s, chars), chars)
    ELSE Char(s, 1) \o RunsToHyphen(Tail(s), chars)

\* _slugify
SlugKept == AlnumLow \cup SpaceSet \cup {"-"}
SlugGaps == SpaceSet \cup {"_"}

\* a slug whose repeated hyphens are not collapsed
slugify_NoCollapse(name) ==
    LET s1 == Strip(Lower(name), SpaceSet)
        s2 == Keep(s1, SlugKept)
        s3 == RunsToHyphen(s2, SlugGaps)
    IN  Strip(s3, {"-"})

slugify(name) ==
    LET s1 == Strip(Lower(name), SpaceSet)
        s2 == Keep(s1, SlugKept)
        s3 == RunsToHyphen(s2, SlugGaps)
    IN  Strip(RunsToHyphen(s3, {"-"}), {"-"})

\* _normalize
normalize(s) == Keep(Lower(s), AlnumLow)

\* str.endswith
EndsWith(s, suffix) ==
    Len(suffix) <= Len(s) /\ SubSeq(s, Len(s) - Len(suffix) + 1, Len(s)) = suffix

\* s.split("/")[-1]
RECURSIVE LastSegment(_)
LastSegment(s) ==
    IF "/" \in CharSet(s)
    THEN LastSegment(Tail(s))
    ELSE s

\* "/".join(parts)
RECURSIVE Join(_)
Join(parts) ==
    IF parts = <<>> THEN ""
    ELSE IF Len(parts) = 1 THEN parts[1]
    ELSE parts[1] \o "/" \o Join(Tail(parts))
\* _find_page_files: the dict slug -> page file, in the order the directory walk
\* yields the files; route groups "(x)" and dynamic segments "[x]" are dropped
\* from the slug, a page directly in app/ has no slug and is left out, and a
\* slug seen again keeps its position and takes the later file
PageSlug(dirparts) ==
    Join(SelectSeq(dirparts, LAMBDA q : ~(Len(q) > 0 /\ Char(q, 1) \in {"(", "["})))

RECURSIVE PutPages(_, _)
PutPages(pages, files) ==
    IF files = <<>> THEN pages
    ELSE LET f     == Head(files)
             slug  == PageSlug(f.dir)
             entry == [slug |-> slug, path |-> Join(f.dir) \o "/page.tsx", file |-> f]
             k     == IF \E i \in 1..Len(pages) : pages[i].slug = slug
                      THEN CHOOSE i \in 1..Len(pages) : pages[i].slug = slug ELSE 0
         IN  IF slug = "" THEN PutPages(pages, Tail(files))
             ELSE IF k # 0 THEN PutPages([pages EXCEPT ![k] = entry], Tail(files))
             ELSE PutPages(Append(pages, entry), Tail(files))

find_page_files(files) == PutPages(<<>>, files)

\* _is_stub_page: an unreadable page is a stub; `lines` is the number of lines of
\* the stripped content (blank lines inside it included)
STUB_MIN_LINES == 10
STUB_SOON_LINES == 30

\* a stub test whose first threshold is inclusive
is_stub_page_Inclusive(file) ==
    IF ~file.readable THEN TRUE
    ELSE IF file.lines <= STUB_MIN_LINES THEN TRUE
    ELSE IF file.coming_soon /\ file.lines < STUB_SOON_LINES THEN TRUE
    ELSE FALSE

is_stub_page(file) ==
    IF ~file.readable THEN TRUE
    ELSE IF file.lines < STUB_MIN_LINES THEN TRUE
    ELSE IF file.coming_soon /\ file.lines < STUB_SOON_LINES THEN TRUE
    ELSE FALSE

\* _build_route_map: normalized screen_name -> route, a later route with the same
\* normalized name replacing an earlier one; entries that are no dict or have
\* no screen_name are skipped.  A missing field reads as "" (route.get(k, "")).
RECURSIVE build_route_map(_)
build_route_map(routes) ==
    IF routes = <<>> THEN <<>>
    ELSE LET route == routes[Len(routes)]
             rest  == build_route_map(SubSeq(routes, 1, Len(routes) - 1))
             key   == normalize(route.screen_name)
         IN  IF ~route.is_dict \/ route.screen_name = "" THEN rest
             ELSE IF \E i \in 1..Len(rest) : rest[i].key = key
             THEN [i \in 1..Len(rest) |->
                     IF rest[i].key = key THEN [key |-> key, route |-> route] ELSE rest[i]]
             ELSE Append(rest, [key |-> key, route |-> route])

InRouteMap(route_map, key) == \E i \in 1..Len(route_map) : route_map[i].key = key

RouteOf(route_map, key) ==
    route_map[CHOOSE i \in 1..Len(route_map) : route_map[i].key = key].route

\* the first page of the dict among the positions `hits`, 0 when there is none
\* (for page_slug, path in pages.items(): if ...: break)
FirstPage(hits) ==
    IF hits = {} THEN 0
    ELSE CHOOSE i \in hits : \A j \in hits : i <= j

\* Strategy 1: routes.json screen_name, then a page for the route's path
ByRoute(pages, route_map, norm_name) ==
    IF InRouteMap(route_map, norm_name)
    THEN LET rpath == LStrip(RouteOf(route_map, norm_name).path, {"/"})
         IN  FirstPage({i \in 1..Len(pages) :
                 \/ rpath = pages[i].slug
                 \/ EndsWith(rpath, pages[i].slug)
                 \/ EndsWith(pages[i].slug, LastSegment(rpath))})
    ELSE 0

\* Strategy 2: exact slug
ByExactSlug(pages, slug) ==
    FirstPage({i \in 1..Len(pages) :
        slug = pages[i].slug \/ ("app/" \o slug) = pages[i].slug})

\* Strategy 3: last path segment
ByLastSegment(pages, slug) ==
    FirstPage({i \in 1..Len(pages) : LastSegment(pages[i].slug) = slug})

\* Strategy 4: normalized name against the normalized page slug
ByNormalized(pages, norm_name) ==
    FirstPage({i \in 1..Len(pages) : norm_name = normalize(pages[i].slug)})

\* a search that tries the exact slug before the route manifest
FindPage_SlugFirst(pages, route_map, name) ==
    LET slug      == slugify(name)
        norm_name == normalize(name)
        p1        == ByRoute(pages, route_map, norm_name)
        p2        == ByExactSlug(pages, slug)
        p3        == ByLastSegment(pages, slug)
        p4        == ByNormalized(pages, norm_name)
    IN  IF p2 # 0 THEN [page |-> p2, matched_via |-> "exact_slug"]
        ELSE IF p1 # 0 THEN [page |-> p1, matched_via |-> "routes.json"]
        ELSE IF p3 # 0 THEN [page |-> p3, matched_via |-> "last_segment"]
        ELSE IF p4 # 0 THEN [page |-> p4, matched_via |-> "normalized"]
        ELSE [page |-> 0, matched_via |-> None]

\* the page found for one feature (0: none) and the strategy recorded for it
FindPage(pages, route_map, name) ==
    LET slug      == slugify(name)
        norm_name == normalize(name)
        p1        == ByRoute(pages, route_map, norm_name)
        p2        == ByExactSlug(pages, slug)
        p3        == ByLastSegment(pages, slug)
        p4        == ByNormalized(pages, norm_name)
    IN  IF p1 # 0 THEN [page |-> p1, matched_via |-> "routes.json"]
        ELSE IF p2 # 0 THEN [page |-> p2, matched_via |-> "exact_slug"]
        ELSE IF p3 # 0 THEN [page |-> p3, matched_via |-> "last_segment"]
        ELSE IF p4 # 0 THEN [page |-> p4, matched_via |-> "normalized"]
        ELSE [page |-> 0,
              matched_via |-> IF InRouteMap(route_map, norm_name)
                              THEN "routes.json" ELSE None]

\* a matcher that considers the resolved screens too
Considered_AnyStatus(f) == f.category = "screen"

\* the features match_codebase considers
Considered(f) == f.category = "screen" /\ f.status = "open"

\* the classification of a page search: matched, stub or missing
Classify(pages, found) ==
    IF found.page # 0 /\ ~is_stub_page(pages[found.page].file) THEN "matched"
    ELSE IF found.page # 0 THEN "stub"
    ELSE "missing"

\* the loop body of match_codebase for a feature named `name`: everything but
\* the write-back
PageSearch(codebase, name) ==
    LET pages     == find_page_files(codebase.files)
        route_map == build_route_map(codebase.routes)
        found     == FindPage(pages, route_map, name)
    IN  [class       |-> Classify(pages, found),
         screen_name |-> name,
         expected_slug |-> slugify(name),
         page_path   |-> IF found.page # 0 THEN pages[found.page].path ELSE None,
         matched_via |-> found.matched_via,
         has_route   |-> InRouteMap(route_map, normalize(name))]

\* page files of a codebase
FoodLogPage  == [dir |-> <<"(main)", "food-log">>, lines |-> 40,
                 coming_soon |-> FALSE, readable |-> TRUE]
SettingsStub == [dir |-> <<"settings">>, lines |-> 5,
                 coming_soon |-> TRUE, readable |-> TRUE]
FoodLogStub  == [dir |-> <<"app", "food-log">>, lines |-> 12,
                 coming_soon |-> TRUE, readable |-> TRUE]

Codebases ==
    {[app_exists |-> FALSE, files |-> <<>>, routes |-> <<>>],
     [app_exists |-> TRUE, files |-> <<FoodLogPage, SettingsStub>>, routes |-> <<>>],
     [app_exists |-> TRUE, files |-> <<SettingsStub, FoodLogStub>>,
      routes |-> <<[is_dict |-> TRUE, screen_name |-> "food log", path |-> "/app/food-log"]>>]}

\* more page files: a page that only a route leads to, a page below another
\* directory, a page whose directory is spelled with an underscore
DiaryPage      == [dir |-> <<"diary">>, lines |-> 40,
                   coming_soon |-> FALSE, readable |-> TRUE]
TabsFoodLog    == [dir |-> <<"tabs", "food-log">>, lines |-> 40,
                   coming_soon |-> FALSE, readable |-> TRUE]
FoodLogUnderscore == [dir |-> <<"food_log">>, lines |-> 40,
                      coming_soon |-> FALSE, readable |-> TRUE]

RouteTo(path) == [is_dict |-> TRUE, screen_name |-> "Food Log", path |-> path]

\* projects in which the strategies of match_codebase disagree or fail
MatchCodebases ==
    Codebases \cup
    {[app_exists |-> TRUE, files |-> <<FoodLogPage, DiaryPage>>,
      routes |-> <<RouteTo("/diary")>>],
     [app_exists |-> TRUE, files |-> <<FoodLogPage>>, routes |-> <<RouteTo("/nowhere")>>],
     [app_exists |-> TRUE, files |-> <<TabsFoodLog, FoodLogPage>>, routes |-> <<>>],
     [app_exists |-> TRUE, files |-> <<FoodLogUnderscore, TabsFoodLog>>, routes |-> <<>>],
     [app_exists |-> TRUE, files |-> <<FoodLogUnderscore, SettingsStub>>, routes |-> <<>>],
     [app_exists |-> TRUE, files |-> <<DiaryPage>>, routes |-> <<>>]}

\* the names the detectors give to features
FeatureNames == {"Food Log", "Food Log::header", "Settings"}

\* PageSearch depends on the codebase and the name only: it is evaluated once
\* for each pair
SearchTable == [codebase \in MatchCodebases |-> [name \in FeatureNames |-> PageSearch(codebase, name)]]

\* one feature's pass through the loop of match_codebase
MatchOne(codebase, f) ==
    IF Considered(f)
    THEN [feature_id |-> f.id] @@ SearchTable[codebase][f.name]
    ELSE [feature_id |-> f.id, class |-> "skipped"]

\* a write-back that does not look at dry_run
MatchWrite_IgnoreDryRun(f, class, dry_run) ==
    IF class = "matched" THEN [f EXCEPT !.status = "implemented"] ELSE f

\* what match_codebase writes back onto one feature
MatchWrite(f, class, dry_run) ==
    IF class = "matched" /\ ~dry_run THEN [f EXCEPT !.status = "implemented"] ELSE f

\* the dict appended to results["matched"], results["stub"] or results["missing"]
ResultEntry(r) ==
    IF r.class = "matched"
    THEN [feature_id |-> r.feature_id, screen_name |-> r.screen_name,
          page_path |-> r.page_path, matched_via |-> r.matched_via,
          has_route |-> r.has_route]
    ELSE IF r.class = "stub"
    THEN [feature_id |-> r.feature_id, screen_name |-> r.screen_name,
          page_path |-> r.page_path, matched_via |-> r.matched_via]
    ELSE [feature_id |-> r.feature_id, screen_name |-> r.screen_name,
          expected_slug |-> r.expected_slug]

ResultList(passes, class) ==
    LET sel == SelectSeq(passes, LAMBDA r : r.class = class)
    IN  [i \in 1..Len(sel) |-> ResultEntry(sel[i])]

\* match_codebase: the new state and the returned results; the stats are not
\* recomputed here (save_state does it when the caller persists)
match_codebase(st, codebase, dry_run) ==
    IF ~codebase.app_exists
    THEN [state |-> st, ret |-> [error |-> "App directory not found", matched |-> 0]]
    ELSE
    LET features  == st.features
        passes    == [i \in 1..Len(features) |-> MatchOne(codebase, features[i])]
        updated   == [i \in 1..Len(features) |->
                         MatchWrite(features[i], passes[i].class, dry_run)]
        matched   == ResultList(passes, "matched")
        stub      == ResultList(passes, "stub")
        missing   == ResultList(passes, "missing")
    IN  [state |-> [st EXCEPT !.features = updated],
         ret   |-> [matched |-> matched, stub |-> stub, missing |-> missing,
                    total_matched |-> Len(matched),
                    total_stub    |-> Len(stub),
                    total_missing |-> Len(missing)]]

(***************************************************************************)
(* The store as a state machine: one State object, and the operations the  *)
(* command line runs on it.                                                *)
(***************************************************************************)
\* what the detectors can emit: (detector, originating node id, name, category)
ScreenKey ==
    [detector |-> "screen", screen_id |-> "n1", name |-> "Food Log",
     category |-> "screen"]
NavKey ==
    [detector |-> "navigation", screen_id |-> "n1", name |-> "Food Log::header",
     category |-> "navigation"]

FeatureKeys == {ScreenKey, NavKey}

\* the tier a detector computes varies with the design for a screen (the tier
\* classifier) and is 1 for a header; summary and detail vary with it
Tiers(k) == IF k.detector = "navigation" THEN {1} ELSE {1, 2}

SummaryOf(k, tier) == k.detector \o ": " \o k.name \o (IF tier = 1 THEN " T1" ELSE " T2")
DetailOf(k, tier)  == [child_count |-> tier]

FreshFeatures(now) ==
    UNION {{make_feature(k.detector, k.screen_id, k.name, t, k.category,
                         SummaryOf(k, t), DetailOf(k, t), now) : t \in Tiers(k)}
           : k \in FeatureKeys}

\* the lists run_all_detectors can return: any order, ids may repeat
FreshLists(now) ==
    UNION {[1..n -> FreshFeatures(now)] : n \in 0..MaxFresh}

SourceFiles == {"design.pen"}

Patterns == {"screen::n1::Food Log", "n1", "header", "zzz"}

ResolveStatuses == {"implemented", "deferred", "out_of_scope"}

(***************************************************************************)
(* state.py: persistence.  A file is a record: k says what the file holds, *)
(* v which serialized state (0: the one on disk at the start, n: the one   *)
(* the n-th save_state call writes), by which process is writing it.       *)
(*   "missing"  no such file                                               *)
(*   "full"     the complete text json.dumps(state) + "\n" of state v      *)
(*   "part"     a proper prefix of that text (a file opened for writing    *)
(*              and not yet completely written); it does not parse         *)
(*   "mixed"    bytes of two writers                                       *)
(*   "garbage"  content that is no JSON (damage from outside the program)  *)
(***************************************************************************)
Procs == {1, 2}

Missing    == [k |-> "missing", v |-> 0, by |-> 0]
Garbage    == [k |-> "garbage", v |-> 0, by |-> 0]
Mixed      == [k |-> "mixed",   v |-> 0, by |-> 0]
Full(v)    == [k |-> "full",    v |-> v, by |-> 0]
Part(v, p) == [k |-> "part",    v |-> v, by |-> p]

\* Path.exists()
Exists(file) == file.k # "missing"

\* json.loads succeeds on the file's text
Parses(file) == file.k = "full"

\* what load_state returns: the parsed dict of serialized state v, or a fresh
\* _empty_state(); or it raises
Returned(data) == [raised |-> FALSE, data |-> data]
Fresh          == [fresh |-> TRUE, v |-> 0, version |-> empty_state.version,
                   features |-> empty_state.features,
                   scan_count |-> empty_state.scan_count]
Parsed(file)   == [fresh |-> FALSE, v |-> file.v]
Raised         == [raised |-> TRUE, data |-> None]

\* the except clause around the read of the backup
BackupCaught == {"JSONDecodeError", "UnicodeDecodeError"}

\* the exception json.loads(file.read_text()) ends with, None when it returns
ReadError(file, oserror) ==
    IF oserror THEN "OSError"
    ELSE IF Parses(file) THEN None
    ELSE "JSONDecodeError"

\* load_state; t_oserror / b_oserror: read_text() of the state file / of the
\* backup raises OSError (permission denied, I/O error, a directory)
load_state(tgt, bak, t_oserror, b_oserror) ==
    IF ~Exists(tgt) THEN Returned(Fresh)
    ELSE IF ReadError(tgt, t_oserror) = None THEN Returned(Parsed(tgt))
    ELSE IF Exists(bak)
         THEN IF ReadError(bak, b_oserror) = None THEN Returned(Parsed(bak))
              ELSE IF ReadError(bak, b_oserror) \in BackupCaught THEN Returned(Fresh)
              ELSE Raised
         ELSE Returned(Fresh)

(***************************************************************************)
(* save_state, one action per system call.  pc[p] names the call process p *)
(* makes next:                                                             *)
(*   idle -> mkstemp -> write -> fsync -> exists -> (copy -> copying ->)   *)
(*   replace -> idle, and after an OSError                                 *)
(*   unlink -> fb_open -> fb_write -> idle                                 *)
(***************************************************************************)
\* the steps of the try block whose OSError the outer except catches
Guarded == {"mkstemp", "write", "fsync", "replace"}

\* one temp file name for every process
TmpOf_Shared(p) == 1

\* tempfile.mkstemp: every call makes a file of its own; the temp files are
\* numbered by the process that made them
TmpOf(p) == p

\* a write that stops before the end of the text
os_write_Short(v) == Part(v, 0)

\* os.write(fd, content.encode()): the temp file holds the whole text
os_write(v) == Full(v)

\* os.replace(tmp_path, p): the target is the temp file, atomically
os_replace(tmpfile, tgt) == tmpfile

\* a copy that returns before the bytes are in the backup
copy_done_Partial(p, bak, source) == bak

\* shutil.copy2 finishing: the backup holds what was read from the target,
\* unless another process opened the backup for writing in the meantime
copy_done(p, bak, source) ==
    IF bak = Part(source.v, p) THEN source
    ELSE IF bak = source THEN source
    ELSE Mixed

\* p.write_text(content) finishing: the bytes go to the file that was opened;
\* when another process has replaced the target since, that file is no
\* longer the target
write_text_done(p, tgt, v) ==
    IF tgt = Part(v, p) THEN Full(v) ELSE tgt

SaveBegin(p) ==
    /\ pc[p] = "idle"
    /\ saves < MaxSaves
    /\ saves' = saves + 1
    /\ content' = [content EXCEPT ![p] = saves + 1]
    /\ before' = [before EXCEPT ![p] = target]
    /\ err' = [err EXCEPT ![p] = FALSE]
    /\ outcome' = [outcome EXCEPT ![p] = "running"]
    /\ pc' = [pc EXCEPT ![p] = "mkstemp"]
    /\ UNCHANGED <<target, backup, tmp, src, faults, loaded>>

Mkstemp(p) ==
    /\ pc[p] = "mkstemp"
    /\ tmp' = [tmp EXCEPT ![TmpOf(p)] = Part(content[p], p)]
    /\ pc' = [pc EXCEPT ![p] = "write"]
    /\ UNCHANGED <<target, backup, content, before, src, err, outcome, saves,
                   faults, loaded>>

WriteTemp(p) ==
    /\ pc[p] = "write"
    /\ tmp' = [tmp EXCEPT ![TmpOf(p)] = os_write(content[p])]
    /\ pc' = [pc EXCEPT ![p] = "fsync"]
    /\ UNCHANGED <<target, backup, content, before, src, err, outcome, saves,
                   faults, loaded>>

\* os.fsync(fd), and os.close(fd) of the finally clause
Fsync(p) ==
    /\ pc[p] = "fsync"
    /\ pc' = [pc EXCEPT ![p] = "exists"]
    /\ UNCHANGED <<target, backup, tmp, content, before, src, err, outcome,
                   saves, faults, loaded>>

\* if p.exists()
TargetExists(p) ==
    /\ pc[p] = "exists"
    /\ pc' = [pc EXCEPT ![p] = IF Exists(target) THEN "copy" ELSE "replace"]
    /\ UNCHANGED <<target, backup, tmp, content, before, src, err, outcome,
                   saves, faults, loaded>>

\* shutil.copy2 opens the target for reading and the backup for writing
CopyOpen(p) ==
    /\ pc[p] = "copy"
    /\ Exists(target)
    /\ src' = [src EXCEPT ![p] = target]
    /\ backup' = Part(target.v, p)
    /\ pc' = [pc EXCEPT ![p] = "copying"]
    /\ UNCHANGED <<target, tmp, content, before, err, outcome, saves, faults,
                   loaded>>

CopyDone(p) ==
    /\ pc[p] = "copying"
    /\ backup' = copy_done(p, backup, src[p])
    /\ pc' = [pc EXCEPT ![p] = "replace"]
    /\ UNCHANGED <<target, tmp, content, before, src, err, outcome, saves,
                   faults, loaded>>

\* shutil.copy2 raises OSError: caught and passed over, the save goes on
CopyFail(p) ==
    /\ pc[p] \in {"copy", "copying"}
    /\ faults < MaxFaults
    /\ faults' = faults + 1
    /\ pc' = [pc EXCEPT ![p] = "replace"]
    /\ UNCHANGED <<target, backup, tmp, content, before, src, err, outcome,
                   saves, loaded>>

Replace(p) ==
    /\ pc[p] = "replace"
    /\ target' = os_replace(tmp[TmpOf(p)], target)
    /\ tmp' = [tmp EXCEPT ![TmpOf(p)] = Missing]
    /\ outcome' = [outcome EXCEPT ![p] = "replaced"]
    /\ pc' = [pc EXCEPT ![p] = "idle"]
    /\ UNCHANGED <<backup, content, before, src, err, saves, faults, loaded>>

\* mkstemp, os.write, os.fsync or os.replace raises OSError: the outer except
\* takes over (a failed os.write leaves the temp file as it is)
CatchOSError(p) ==
    /\ pc[p] \in Guarded
    /\ faults < MaxFaults
    /\ faults' = faults + 1
    /\ err' = [err EXCEPT ![p] = TRUE]
    /\ pc' = [pc EXCEPT ![p] = "unlink"]
    /\ UNCHANGED <<target, backup, tmp, content, before, src, outcome, saves,
                   loaded>>

\* os.unlink(tmp_path); its own OSError, and the UnboundLocalError when
\* mkstemp never returned, are passed over
Unlink(p) ==
    /\ pc[p] = "unlink"
    /\ tmp' = [tmp EXCEPT ![TmpOf(p)] = Missing]
    /\ pc' = [pc EXCEPT ![p] = "fb_open"]
    /\ UNCHANGED <<target, backup, content, before, src, err, outcome, saves,
                   faults, loaded>>

\* p.write_text(content): open(p, "w") truncates the target
FallbackOpen(p) ==
    /\ pc[p] = "fb_open"
    /\ target' = Part(content[p], p)
    /\ pc' = [pc EXCEPT ![p] = "fb_write"]
    /\ UNCHANGED <<backup, tmp, content, before, src, err, outcome, saves,
                   faults, loaded>>

\* p.write_text(content): the text is written and the file closed
FallbackWrite(p) ==
    /\ pc[p] = "fb_write"
    /\ target' = write_text_done(p, target, content[p])
    /\ outcome' = [outcome EXCEPT ![p] = "written"]
    /\ pc' = [pc EXCEPT ![p] = "idle"]
    /\ UNCHANGED <<backup, tmp, content, before, src, err, saves, faults, loaded>>

\* p.write_text(content) raises OSError: save_state raises
FallbackFail(p) ==
    /\ pc[p] \in {"fb_open", "fb_write"}
    /\ faults < MaxFaults
    /\ faults' = faults + 1
    /\ outcome' = [outcome EXCEPT ![p] = "raised"]
    /\ pc' = [pc EXCEPT ![p] = "idle"]
    /\ UNCHANGED <<target, backup, tmp, content, before, src, err, saves, loaded>>

\* the process is killed in the middle of save_state
Crash(p) ==
    /\ pc[p] # "idle"
    /\ outcome' = [outcome EXCEPT ![p] = "killed"]
    /\ pc' = [pc EXCEPT ![p] = "idle"]
    /\ UNCHANGED <<target, backup, tmp, content, before, src, err, saves,
                   faults, loaded>>

\* one step of save_state by process p
SaveStep(p) ==
    \/ SaveBegin(p)
    \/ Mkstemp(p)
    \/ WriteTemp(p)
    \/ Fsync(p)
    \/ TargetExists(p)
    \/ CopyOpen(p)
    \/ CopyDone(p)
    \/ CopyFail(p)
    \/ Replace(p)
    \/ CatchOSError(p)
    \/ Unlink(p)
    \/ FallbackOpen(p)
    \/ FallbackWrite(p)
    \/ FallbackFail(p)
    \/ Crash(p)

\* load_state, run by a reader at any moment
LoadState ==
    \E t_oserror \in BOOLEAN, b_oserror \in BOOLEAN :
        /\ loaded' = [called |-> TRUE, target |-> target, backup |-> backup,
                      t_oserror |-> t_oserror, b_oserror |-> b_oserror,
                      result |-> load_state(target, backup, t_oserror, b_oserror)]
        /\ UNCHANGED <<target, backup, tmp, pc, content, before, src, err,
                       outcome, saves, faults>>

(***************************************************************************)
(* The specifications.                                                     *)
(***************************************************************************)
\* what the disk can hold when the program starts
StartFiles == {Missing, Full(0), Garbage}

NoLoad == [called |-> FALSE, target |-> Missing, backup |-> Missing,
           t_oserror |-> FALSE, b_oserror |-> FALSE, result |-> Returned(Fresh)]

\* no pure function has been called
NoCall == [fn |-> "none"]

StoreAtRest ==
    /\ state = empty_state
    /\ pre = <<>>
    /\ last = [op |-> "init"]

DiskAtRest(tgt, bak) ==
    /\ target = tgt
    /\ backup = bak
    /\ tmp = [p \in Procs |-> Missing]
    /\ pc = [p \in Procs |-> "idle"]
    /\ content = [p \in Procs |-> 0]
    /\ before = [p \in Procs |-> Missing]
    /\ src = [p \in Procs |-> Missing]
    /\ err = [p \in Procs |-> FALSE]
    /\ outcome = [p \in Procs |-> "none"]
    /\ saves = 0
    /\ faults = 0
    /\ loaded = NoLoad

\* a new project: _empty_state(), nothing on disk
Init == StoreAtRest /\ DiskAtRest(Missing, Missing) /\ call = NoCall

\* _now(): the clock ticks once per scan; the detectors and the merge of one
\* scan read the same second
Now(st) == st.scan_count + 1

\* the list without the time stamps of make_feature
Unstamped(features) ==
    [i \in 1..Len(features) |-> [features[i] EXCEPT !.first_seen = 0, !.last_seen = 0]]

\* the caller passes to merge_scan the fresh set of the merge_scan just before
SameFresh(prev, features) ==
    prev.op = "merge_scan" /\ Unstamped(prev.features) = Unstamped(features)

MergeScan ==
    /\ state.scan_count < MaxScans
    /\ \E features \in FreshLists(Now(state)), source_file \in SourceFiles :
          LET r == merge_scan(state, features, source_file, Now(state))
          IN  /\ state' = r.state
              /\ pre' = state.features
              /\ last' = [op |-> "merge_scan", features |-> features, ret |-> r.ret,
                          again |-> SameFresh(last, features)]
    /\ UNCHANGED <<diskVars, call>>

ResolveFeature ==
    /\ \E pattern \in Patterns, status \in ResolveStatuses :
          LET r == resolve_feature(state, pattern, status)
          IN  /\ state' = r.state
              /\ pre' = state.features
              /\ last' = [op |-> "resolve_feature", pattern |-> pattern,
                          status |-> status, ret |-> r.ret]
    /\ UNCHANGED <<diskVars, call>>

MatchCodebase ==
    /\ \E codebase \in Codebases, dry_run \in BOOLEAN :
          LET r == match_codebase(state, codebase, dry_run)
          IN  /\ state' = r.state
              /\ pre' = state.features
              /\ last' = [op |-> "match_codebase", codebase |-> codebase,
                          dry_run |-> dry_run, ret |-> r.ret]
    /\ UNCHANGED <<diskVars, call>>

\* the store: any sequence of merge_scan, resolve_feature and match_codebase
Next ==
    \/ MergeScan
    \/ ResolveFeature
    \/ MatchCodebase

Spec == Init /\ [][Next]_vars

\* the state file, one process saving, a reader loading
InitDisk ==
    /\ StoreAtRest
    /\ \E tgt \in StartFiles, bak \in StartFiles : DiskAtRest(tgt, bak)
    /\ call = NoCall

NextSave ==
    \/ SaveStep(1) /\ UNCHANGED <<storeVars, call>>
    \/ LoadState /\ UNCHANGED <<storeVars, call>>

SpecSave == InitDisk /\ [][NextSave]_vars

\* the state file, two processes saving with their steps interleaved
NextConc == \E p \in Procs : SaveStep(p) /\ UNCHANGED <<state, pre, last, loaded, call>>

SpecConc == InitDisk /\ [][NextConc]_vars

(***************************************************************************)
(* Properties of the store (specification Spec).  `pre` is the mapping     *)
(* before the last operation, state.features the mapping after it; an      *)
(* entry keeps its position in the mapping.                                *)
(***************************************************************************)
Before(i) == pre[i]
After(i)  == state.features[i]

\* the ids of the fresh set of the last merge_scan
FreshIds == Ids(last.features)

\* the record of the fresh set that was merged last for this id
LastFresh(fid) ==
    last.features[CHOOSE i \in 1..Len(last.features) :
                     /\ last.features[i].id = fid
                     /\ \A j \in (i + 1)..Len(last.features) : last.features[j].id # fid]

\* the last operation overwrote tier, summary, detail and last_seen of entry i
Overwritten(i) ==
    /\ After(i).tier      = LastFresh(Before(i).id).tier
    /\ After(i).summary   = LastFresh(Before(i).id).summary
    /\ After(i).detail    = LastFresh(Before(i).id).detail
    /\ After(i).last_seen = state.last_scan
    /\ After(i).last_seen > Before(i).last_seen

\* C1 (as stated): after merge_scan, a feature that was in the mapping and whose
\* id is absent from the fresh set has status "removed_from_design" if and only
\* if its status before was "open"; with another prior status it is unchanged.
C1_RemovedIffWasOpen ==
    last.op = "merge_scan" =>
        \A i \in 1..Len(pre) :
            Before(i).id \notin FreshIds =>
                /\ (After(i).status = "removed_from_design") <=> (Before(i).status = "open")
                /\ Before(i).status # "open" => After(i).status = Before(i).status

\* C1 (amended): after merge_scan, a feature that was in the mapping and whose
\* id is absent from the fresh set has status "removed_from_design" if and only
\* if its status before was "open" or already "removed_from_design"; its status
\* changes if and only if it was "open".
C1_RemovedIffWasOpenOrRemoved ==
    last.op = "merge_scan" =>
        \A i \in 1..Len(pre) :
            Before(i).id \notin FreshIds =>
                /\ (After(i).status = "removed_from_design")
                       <=> (Before(i).status \in {"open", "removed_from_design"})
                /\ (After(i).status # Before(i).status) <=> (Before(i).status = "open")

\* an open feature and an implemented one both disappear in one merge_scan
C1_Witness ==
    /\ last.op = "merge_scan"
    /\ \E i \in 1..Len(pre) :
          /\ Before(i).id \notin FreshIds
          /\ Before(i).status = "open"
          /\ After(i).status = "removed_from_design"
    /\ \E i \in 1..Len(pre) :
          /\ Before(i).id \notin FreshIds
          /\ Before(i).status = "implemented"
          /\ After(i).status = "implemented"

\* C2: a feature that is "implemented" and whose id is in the fresh set is
\* still "implemented" after merge_scan, while its tier, summary and detail
\* are those of the fresh record and its last_seen is the time of the scan;
\* holding for each merge_scan, it holds for any number of them.
C2_ImplementedSurvivesRescan ==
    last.op = "merge_scan" =>
        \A i \in 1..Len(pre) :
            (Before(i).status = "implemented" /\ Before(i).id \in FreshIds) =>
                After(i).status = "implemented" /\ Overwritten(i)

\* an implemented feature, seen by the first two scans, comes with another tier in the third
C2_Witness ==
    /\ last.op = "merge_scan"
    /\ state.scan_count = MaxScans
    /\ \E i \in 1..Len(pre) :
          /\ Before(i).status = "implemented"
          /\ Before(i).id \in FreshIds
          /\ Before(i).first_seen = 1
          /\ Before(i).last_seen = 2
          /\ After(i).tier # Before(i).tier
          /\ After(i).summary # Before(i).summary
          /\ After(i).status = "implemented"

\* C3: when merge_scan is called again with the fresh set of the merge_scan
\* just before it (records with equal ids included), the second call returns
\* new = 0, inserts nothing and changes no feature's status.
C3_SecondMergeIsIdentity ==
    (last.op = "merge_scan" /\ last.again) =>
        /\ last.ret.new = 0
        /\ Len(state.features) = Len(pre)
        /\ \A i \in 1..Len(pre) : After(i).status = Before(i).status

\* the repeated fresh set has two records with one id, the mapping holds an
\* open feature of the set and a resolved feature outside it
C3_Witness ==
    /\ last.op = "merge_scan"
    /\ last.again
    /\ Len(last.features) = 2
    /\ last.features[1].id = last.features[2].id
    /\ last.features[1].tier # last.features[2].tier
    /\ \E i \in 1..Len(pre) : Before(i).id \in FreshIds /\ Before(i).status = "open"
    /\ \E i \in 1..Len(pre) : Before(i).id \notin FreshIds /\ Before(i).status # "open"

\* C4: every change of a feature's status starts from "open" and is one of
\* open -> removed_from_design by merge_scan with the id absent from the fresh
\* set, open -> the status argument by resolve_feature, open -> implemented by
\* match_codebase when not a dry run; a status that is not "open" never changes.
C4_StatusChangesOnlyFromOpen ==
    \A i \in 1..Len(pre) :
        After(i).status # Before(i).status =>
            /\ Before(i).status = "open"
            /\ \/ /\ last.op = "merge_scan"
                  /\ Before(i).id \notin FreshIds
                  /\ After(i).status = "removed_from_design"
               \/ /\ last.op = "resolve_feature"
                  /\ After(i).status = last.status
               \/ /\ last.op = "match_codebase"
                  /\ ~last.dry_run
                  /\ After(i).status = "implemented"

\* match_codebase implements an open screen while a deferred feature stays
C4_Witness ==
    /\ last.op = "match_codebase"
    /\ ~last.dry_run
    /\ \E i \in 1..Len(pre) :
          Before(i).status = "open" /\ After(i).status = "implemented"
    /\ \E i \in 1..Len(pre) :
          Before(i).status = "deferred" /\ After(i).status = "deferred"

\* C5: a feature that is "removed_from_design" and whose id is in the fresh set
\* again is updated in place (tier, summary, detail, last_seen), is not counted
\* in the returned new, and stays "removed_from_design".
C5_ReappearanceKeepsRemoved ==
    last.op = "merge_scan" =>
        /\ \A i \in 1..Len(pre) :
              (Before(i).status = "removed_from_design" /\ Before(i).id \in FreshIds) =>
                  /\ After(i).status = "removed_from_design"
                  /\ After(i).first_seen = Before(i).first_seen
                  /\ Overwritten(i)
        /\ last.ret.new = Cardinality(FreshIds \ Ids(pre))
        /\ Len(state.features) = Len(pre) + last.ret.new

\* the only record of the fresh set is a removed feature that reappears with
\* another tier
C5_Witness ==
    /\ last.op = "merge_scan"
    /\ last.ret.new = 0
    /\ Len(last.features) = 1
    /\ \E i \in 1..Len(pre) :
          /\ Before(i).status = "removed_from_design"
          /\ Before(i).id \in FreshIds
          /\ After(i).status = "removed_from_design"
          /\ After(i).tier # Before(i).tier

\* the pattern of the last resolve_feature selects entry i as C6 words it
Selected(i) ==
    \/ Before(i).id = last.pattern
    \/ Before(i).screen_id = last.pattern
    \/ \E a \in 1..Len(Before(i).id) : \E b \in (a - 1)..Len(Before(i).id) :
          SubSeq(Before(i).id, a, b) = last.pattern

\* the positions of the entries the last operation changed, in mapping order
Changed == SelectSeq([i \in 1..Len(pre) |-> i], LAMBDA i : After(i) # Before(i))

\* C6: resolve_feature sets the status to the status argument for exactly the
\* features that are "open" and whose id equals the pattern, or whose screen_id
\* equals it, or whose id contains it; every other feature is untouched; the
\* returned list is exactly the ids of the features changed (empty when nothing
\* matches).
C6_ResolveExactlyOpenMatches ==
    last.op = "resolve_feature" =>
        /\ Len(state.features) = Len(pre)
        /\ \A i \in 1..Len(pre) :
              IF Before(i).status = "open" /\ Selected(i)
              THEN After(i) = [Before(i) EXCEPT !.status = last.status]
              ELSE After(i) = Before(i)
        /\ last.ret = [n \in 1..Len(Changed) |-> Before(Changed[n]).id]

\* the node id "n1" selects both features, one is open and is resolved, the
\* other was resolved before and stays
C6_Witness ==
    /\ last.op = "resolve_feature"
    /\ last.pattern = "n1"
    /\ Len(last.ret) = 1
    /\ \E i \in 1..Len(pre) :
          /\ Before(i).status = "open"
          /\ After(i).status = last.status
          /\ last.ret = <<Before(i).id>>
    /\ \E i \in 1..Len(pre) :
          /\ Selected(i)
          /\ Before(i).status \notin {"open", last.status}
          /\ After(i) = Before(i)

\* C7: no operation removes an id from the mapping; a feature that disappears
\* from the design stays in it.
C7_NoFeatureDeleted ==
    /\ Ids(pre) \subseteq Ids(state.features)
    /\ Len(state.features) >= Len(pre)
    /\ Cardinality(Ids(state.features)) = Len(state.features)

\* both features of the mapping disappear from the design and stay in the mapping
C7_Witness ==
    /\ last.op = "merge_scan"
    /\ last.features = <<>>
    /\ last.ret.removed = 2
    /\ Len(pre) = 2
    /\ Ids(state.features) = Ids(pre)
    /\ \A i \in 1..Len(pre) : After(i).status = "removed_from_design"

(***************************************************************************)
(* Properties of the state file (specifications SpecSave and SpecConc).    *)
(***************************************************************************)
\* C8: while a save_state call that met no OSError is under way (the temp file
\* written, synced, the backup copied) the state file holds the content it had
\* when the call began or the complete new content, and the new content once
\* the rename is done; it is no partial file unless it was one before the call.
C8_TargetOldOrNew ==
    /\ (pc[1] # "idle" /\ ~err[1]) =>
          /\ target \in {before[1], Full(content[1])}
          /\ before[1].k = "full" => target.k = "full"
    /\ (pc[1] = "idle" /\ outcome[1] = "replaced") => target = Full(content[1])

\* a save over an existing state file: the backup is copied, the temp file is
\* complete, the rename is next and the state file still holds the old content
C8_Witness ==
    /\ pc[1] = "replace"
    /\ faults = 0
    /\ before[1] = Full(1)
    /\ content[1] = 2
    /\ tmp[1] = Full(2)
    /\ backup = Full(1)
    /\ target = Full(1)

\* C9: load_state returns a fresh empty state (version 1, no features,
\* scan_count 0) when the state file is missing; when the state file cannot be
\* read or parsed it returns the content of the backup if that can be read and
\* parsed, and a fresh empty state otherwise; it never raises.
C9_LoadFallbackChain ==
    loaded.called =>
        LET t_ok == ~loaded.t_oserror /\ loaded.target.k = "full"
            b_ok == /\ Exists(loaded.backup)
                    /\ ~loaded.b_oserror
                    /\ loaded.backup.k = "full"
            fresh == [fresh |-> TRUE, v |-> 0, version |-> 1, features |-> <<>>,
                      scan_count |-> 0]
        IN  /\ ~loaded.result.raised
            /\ loaded.result.data =
                  IF ~Exists(loaded.target) THEN fresh
                  ELSE IF t_ok THEN [fresh |-> FALSE, v |-> loaded.target.v]
                  ELSE IF b_ok THEN [fresh |-> FALSE, v |-> loaded.backup.v]
                  ELSE fresh

t4_indicators == {"camera", "scanner", "map", "video", "realtime", "animation",
                  "device_api"}
t3_indicators == {"charts", "timers", "builders", "drag_drop", "swipe", "tabs_complex"}
t2_indicators == {"forms", "lists", "cards", "crud", "detail_view", "modals", "tabs"}

\* a lookup that takes a label the mapping has for a counted one
Get_Present(d, k) == IF k \in DOMAIN d THEN 1 ELSE 0

\* dict.get(k, 0)
Get(d, k) == IF k \in DOMAIN d THEN d[k] ELSE 0

classify_screen_tier(feature_counts) ==
    IF \E ind \in t4_indicators : Get(feature_counts, ind) > 0 THEN 4
    ELSE IF \E ind \in t3_indicators : Get(feature_counts, ind) > 0 THEN 3
    ELSE IF \E ind \in t2_indicators : Get(feature_counts, ind) > 0 THEN 2
    ELSE 1

\* the labels of the count mappings: the indicators, and the two counters of
\* _count_features that are no indicator
Labels == t4_indicators \cup t3_indicators \cup t2_indicators
              \cup {"text_nodes", "ref_nodes"}

\* the subsets of S with at most n elements
RECURSIVE SubsetsUpTo(_, _)
SubsetsUpTo(S, n) ==
    IF n = 0 THEN {{}}
    ELSE LET R == SubsetsUpTo(S, n - 1)
         IN  R \cup {T \cup {x} : T \in R, x \in S}

CountMappings ==
    UNION {[S -> 0..MaxCount] : S \in SubsetsUpTo(Labels, MaxLabels)}

\* the caller holds a count mapping
InitTier ==
    /\ StoreAtRest
    /\ DiskAtRest(Missing, Missing)
    /\ \E feature_counts \in CountMappings :
          call = [fn |-> "classify_screen_tier", arg |-> feature_counts,
                  done |-> FALSE, ret |-> 0]

ClassifyScreenTier ==
    /\ call.fn = "classify_screen_tier"
    /\ ~call.done
    /\ call' = [call EXCEPT !.done = TRUE, !.ret = classify_screen_tier(call.arg)]
    /\ UNCHANGED <<storeVars, diskVars>>

NextTier == ClassifyScreenTier

SpecTier == InitTier /\ [][NextTier]_vars

(***************************************************************************)
(* Properties of classify_screen_tier (specification SpecTier).            *)
(***************************************************************************)
\* some label of the set has a count above zero in the mapping of the call
AnyCounted(labels) == \E l \in labels \cap DOMAIN call.arg : call.arg[l] > 0

\* C11 (as stated): classify_screen_tier is 4 if any of camera, scanner, map,
\* video, realtime, animation, device_api has a count > 0; else 3 if any of
\* charts, timers, builders, drag_drop, swipe has; else 2 if any of forms,
\* lists, cards, crud, detail_view, modals, tabs has; else 1; no other label
\* affects the result.
C11_FourRuleDecisionList ==
    (call.fn = "classify_screen_tier" /\ call.done) =>
        call.ret =
            IF AnyCounted({"camera", "scanner", "map", "video", "realtime",
                           "animation", "device_api"}) THEN 4
            ELSE IF AnyCounted({"charts", "timers", "builders", "drag_drop",
                                "swipe"}) THEN 3
            ELSE IF AnyCounted({"forms", "lists", "cards", "crud", "detail_view",
                                "modals", "tabs"}) THEN 2
            ELSE 1

\* C11 (amended): the same decision list with tabs_complex among the labels
\* of the second rule: 3 if any of charts, timers, builders, drag_drop, swipe,
\* tabs_complex has a count > 0.
C11_FourRuleDecisionListWithTabsComplex ==
    (call.fn = "classify_screen_tier" /\ call.done) =>
        call.ret =
            IF AnyCounted({"camera", "scanner", "map", "video", "realtime",
                           "animation", "device_api"}) THEN 4
            ELSE IF AnyCounted({"charts", "timers", "builders", "drag_drop",
                                "swipe", "tabs_complex"}) THEN 3
            ELSE IF AnyCounted({"forms", "lists", "cards", "crud", "detail_view",
                                "modals", "tabs"}) THEN 2
            ELSE 1

\* a mapping that counts tabs_complex, forms and text nodes, and one camera
\* label with count 0, is classified 3
C11_Witness ==
    /\ call.fn = "classify_screen_tier"
    /\ call.done
    /\ DOMAIN call.arg = {"tabs_complex", "forms", "camera"}
    /\ call.arg["tabs_complex"] = 1
    /\ call.arg["forms"] = 1
    /\ call.arg["camera"] = 0
    /\ call.ret = 3

(***************************************************************************)
(* pen_parser.py: a PenNode is a record; `content`, `width` and `ref` are  *)
(* the entries of its property bag with these keys ("", 0 and "" when it   *)
(* has none).                                                              *)
(***************************************************************************)
PenNode(id, type, name, text, reusable, children) ==
    [id |-> id, type |-> type, name |-> name, content |-> text, width |-> 0,
     ref |-> "", reusable |-> reusable, children |-> children]

\* an instance of the component with id `ref`
RefNode(id, name, ref) ==
    [id |-> id, type |-> "ref", name |-> name, content |-> "", width |-> 0,
     ref |-> ref, reusable |-> FALSE, children |-> <<>>]

\* PenNode.walk: the node, then the walk of each child in order
RECURSIVE walk(_)
RECURSIVE WalkAll(_)
walk(node) == <<node>> \o WalkAll(node.children)

WalkAll(nodes) ==
    IF nodes = <<>> THEN <<>> ELSE walk(Head(nodes)) \o WalkAll(Tail(nodes))

\* the elements of a sequence that are in a set, in order
RECURSIVE Filter(_, _)
Filter(seq, S) ==
    IF seq = <<>> THEN <<>>
    ELSE (IF Head(seq) \in S THEN <<Head(seq)>> ELSE <<>>) \o Filter(Tail(seq), S)

RECURSIVE Contents(_)
Contents(nodes) ==
    IF nodes = <<>> THEN <<>> ELSE <<Head(nodes).content>> \o Contents(Tail(nodes))

find_text_content(node) ==
    LET w == walk(node)
    IN  Contents(Filter(w, {w[i] : i \in {j \in 1..Len(w) :
                                w[j].type = "text" /\ w[j].content # ""}}))

count_by_type(node) ==
    LET w == walk(node)
    IN  [t \in {w[i].type : i \in 1..Len(w)} |->
            Cardinality({i \in 1..Len(w) : w[i].type = t})]

depth(node) ==
    LET RECURSIVE D(_)
        D(n) == IF n.children = <<>> THEN 0
                ELSE 1 + LET ds == {D(n.children[i]) : i \in 1..Len(n.children)}
                         IN  CHOOSE m \in ds : \A o \in ds : o <= m
    IN  D(node)

\* PenDocument.screens
is_screen(node) == node.type = "frame" /\ ~node.reusable

(***************************************************************************)
(* detectors/screen.py                                                     *)
(***************************************************************************)
SYSTEM_NAMES == {"design system", "components", "symbols", "tokens", "colors",
                 "typography", "icons", "library", "assets", "styles"}

detect_platform(node) ==
    LET w == node.width
    IN  IF (320 <= w /\ w < 430) \/ (360 <= w /\ w <= 414) THEN "mobile"
        ELSE IF (700 <= w /\ w < 850) \/ (768 <= w /\ w <= 834) THEN "tablet"
        ELSE IF w >= 1200 THEN "desktop"
        ELSE "unknown"

\* " ".join(texts)
RECURSIVE JoinSpace(_)
JoinSpace(texts) ==
    IF texts = <<>> THEN ""
    ELSE IF Len(texts) = 1 THEN texts[1]
    ELSE texts[1] \o " " \o JoinSpace(Tail(texts))

\* any(k in s for k in keys)
AnyIn(keys, s) == \E k \in keys : Contains(s, k)

\* the keyword tests of _count_features: the labels a hit counts for, the
\* keywords, and the text searched (the lowered name, or the lowered name
\* followed by the texts of the frame)
CountRules ==
    {[labels |-> {"forms"}, text |-> "name",
      keys |-> {"input", "field", "text_field", "search", "form"}],
     [labels |-> {"lists"}, text |-> "name", keys |-> {"list", "row", "item", "cell"}],
     [labels |-> {"cards"}, text |-> "name", keys |-> {"card"}],
     [labels |-> {"charts"}, text |-> "name",
      keys |-> {"chart", "graph", "ring", "progress", "donut"}],
     [labels |-> {"tabs"}, text |-> "name", keys |-> {"tab", "segment"}],
     [labels |-> {"modals"}, text |-> "name",
      keys |-> {"modal", "sheet", "dialog", "overlay", "popup"}],
     [labels |-> {"camera", "scanner"}, text |-> "name",
      keys |-> {"camera", "scanner", "barcode", "qr"}],
     [labels |-> {"timers"}, text |-> "name", keys |-> {"timer", "stopwatch", "countdown"}],
     [labels |-> {"map"}, text |-> "name", keys |-> {"map"}],
     [labels |-> {"crud"}, text |-> "combined",
      keys |-> {"add", "create", "new", "edit", "delete", "remove"}],
     [labels |-> {"drag_drop"}, text |-> "name", keys |-> {"drag", "reorder", "sortable"}],
     [labels |-> {"builders"}, text |-> "name", keys |-> {"builder"}]}

\* a rule that searches the name as it is written
Searched_CaseSensitive(n, rule) ==
    IF rule.text = "name" THEN n.name
    ELSE n.name \o " "
         \o (IF n.type = "frame" THEN Lower(JoinSpace(find_text_content(n))) ELSE "")

\* the text a rule searches in node n
Searched(n, rule) ==
    IF rule.text = "name" THEN Lower(n.name)
    ELSE Lower(n.name) \o " "
         \o (IF n.type = "frame" THEN Lower(JoinSpace(find_text_content(n))) ELSE "")

count_features(node) ==
    LET w == walk(node)
        types == count_by_type(node)
        hits == [r \in CountRules |->
                    Cardinality({i \in 1..Len(w) : AnyIn(r.keys, Searched(w[i], r))})]
        counted == UNION {r.labels : r \in {q \in CountRules : hits[q] > 0}}
    IN  [l \in {"text_nodes", "ref_nodes"} \cup counted |->
            IF l = "text_nodes" THEN Get(types, "text")
            ELSE IF l = "ref_nodes" THEN Get(types, "ref")
            ELSE hits[CHOOSE r \in CountRules : l \in r.labels]]

\* str(tier)
TierStr(tier) == Char(Digits, tier + 1)

\* the feature of ScreenDetector.detect for one top-level node
ScreenFeature(screen, now) ==
    LET platform == detect_platform(screen)
        feature_counts == count_features(screen)
        tier == classify_screen_tier(feature_counts)
        texts == find_text_content(screen)
        name == IF screen.name # "" THEN screen.name ELSE screen.id
    IN  make_feature("screen", screen.id, name, tier, "screen",
            "Screen: " \o name \o " (" \o platform \o ", T" \o TierStr(tier) \o ")",
            [platform |-> platform,
             heading |-> IF texts # <<>> THEN texts[1] ELSE screen.name,
             child_count |-> Len(walk(screen)) - 1,
             depth |-> depth(screen),
             feature_counts |-> feature_counts,
             node_types |-> count_by_type(screen)],
            now)

\* a detector that does not skip the reusable frames
Reported_Reusable(screen) ==
    /\ screen.type = "frame"
    /\ ~(screen.name # "" /\ Lower(screen.name) \in SYSTEM_NAMES)

\* the top-level nodes ScreenDetector.detect does not skip
Reported(screen) ==
    /\ screen.type = "frame"
    /\ ~(screen.name # "" /\ Lower(screen.name) \in SYSTEM_NAMES)
    /\ ~screen.reusable

RECURSIVE ScreenDetector_detect(_, _)
ScreenDetector_detect(tops, now) ==
    IF tops = <<>> THEN <<>>
    ELSE (IF Reported(Head(tops)) THEN <<ScreenFeature(Head(tops), now)>> ELSE <<>>)
         \o ScreenDetector_detect(Tail(tops), now)

(***************************************************************************)
(* Documents: the children of the root.  A top-level node has one of a few *)
(* names, a type and a reusable flag, and children drawn from a few        *)
(* subtrees; ids are given by position.                                    *)
(***************************************************************************)
KidShapes(id) ==
    {PenNode(id, "frame", "Camera View", "", FALSE, <<>>),
     PenNode(id, "frame", "Header", "", FALSE, <<>>),
     PenNode(id, "text", "Title", "Add food", FALSE, <<>>),
     PenNode(id, "frame", "Item Card", "", FALSE,
             <<PenNode(id \o "g", "ref", "Search Input", "", FALSE, <<>>)>>),
     PenNode(id, "frame", "Row", "", FALSE,
             <<PenNode(id \o "g", "frame", "Barcode", "", FALSE, <<>>)>>),
     PenNode(id, "frame", "Progress Chart", "", FALSE, <<>>)}

\* the sequences of n children of the node pid
RECURSIVE KidSeqs(_, _)
KidSeqs(pid, n) ==
    IF n = 0 THEN {<<>>}
    ELSE {Append(ks, k) : ks \in KidSeqs(pid, n - 1),
                          k \in KidShapes(pid \o "k" \o Char(Digits, n + 1))}

TopNames == {"Settings", "Components", "Scan QR"}
TopKinds == {[type |-> "frame", reusable |-> FALSE],
             [type |-> "frame", reusable |-> TRUE],
             [type |-> "text", reusable |-> FALSE]}

\* the sequences of n top-level nodes that have at most k children in total
RECURSIVE TopSeqs(_, _)
TopSeqs(n, k) ==
    IF n = 0 THEN {<<>>}
    ELSE UNION {{Append(ts, PenNode("s" \o Char(Digits, n + 1), kind.type, name, "",
                                    kind.reusable, ks)) :
                    ts \in TopSeqs(n - 1, k - j), name \in TopNames,
                    kind \in TopKinds,
                    ks \in KidSeqs("s" \o Char(Digits, n + 1), j)} : j \in 0..k}

Documents == UNION {TopSeqs(n, MaxKids) : n \in 0..MaxTop}

InitScreen ==
    /\ StoreAtRest
    /\ DiskAtRest(Missing, Missing)
    /\ \E doc \in Documents :
          call = [fn |-> "ScreenDetector.detect", arg |-> doc, done |-> FALSE,
                  ret |-> <<>>]

ScreenDetect ==
    /\ call.fn = "ScreenDetector.detect"
    /\ ~call.done
    /\ call' = [call EXCEPT !.done = TRUE,
                            !.ret = ScreenDetector_detect(call.arg, Now(state))]
    /\ UNCHANGED <<storeVars, diskVars>>

NextScreen == ScreenDetect

SpecScreen == InitScreen /\ [][NextScreen]_vars

(***************************************************************************)
(* Properties of the Screen detector (specification SpecScreen).           *)
(***************************************************************************)
\* the names a camera pattern matches: camera, scanner, barcode or qr in the
\* name, in any case
CameraNames == {"Camera View", "Barcode", "Scan QR"}

\* the nodes of the subtree of a node, the node included
RECURSIVE Subtree(_)
Subtree(n) == {n} \cup UNION {Subtree(n.children[i]) : i \in 1..Len(n.children)}

HasCameraNode(screen) == \E n \in Subtree(screen) : n.name \in CameraNames

\* the names that match a form, list, card or chart pattern
OtherPatternNames == {"Item Card", "Search Input", "Row", "Progress Chart"}

\* the features of the call's result for the top-level node
FeaturesOf(screen) ==
    {i \in 1..Len(call.ret) : call.ret[i].screen_id = screen.id}

\* C12: every feature the Screen detector reports for a top-level node whose
\* subtree (the node included) has a node with a camera-pattern name has
\* tier 4, whatever form, list, card, chart or CRUD patterns the subtree
\* also has; and the detector reports one for every such node that is a
\* non-reusable frame without a design-system name.
C12_CameraScreenIsTier4 ==
    (call.fn = "ScreenDetector.detect" /\ call.done) =>
        \A t \in 1..Len(call.arg) :
            LET screen == call.arg[t]
            IN  HasCameraNode(screen) =>
                    /\ \A i \in FeaturesOf(screen) : call.ret[i].tier = 4
                    /\ (is_screen(screen) /\ screen.name # "Components")
                           => FeaturesOf(screen) # {}

\* a screen that has a camera node below a list row and two more nodes with
\* list, card, form and CRUD patterns is reported with tier 4
C12_Witness ==
    /\ call.fn = "ScreenDetector.detect"
    /\ call.done
    /\ \E t \in 1..Len(call.arg) :
          LET screen == call.arg[t]
          IN  /\ screen.name = "Settings"
              /\ \E n \in Subtree(screen) : n.name = "Barcode"
              /\ Cardinality({n \in Subtree(screen) : n.name \in OtherPatternNames}) >= 3
              /\ \E i \in FeaturesOf(screen) : call.ret[i].tier = 4

(***************************************************************************)
(* The matcher on a scanned design: one scan of a design with the screens  *)
(* "Food Log" and "Settings" and a header, then resolve and match against  *)
(* a project in any order.                                                 *)
(***************************************************************************)
SettingsKey ==
    [detector |-> "screen", screen_id |-> "n2", name |-> "Settings",
     category |-> "screen"]

Feature(k, now) ==
    make_feature(k.detector, k.screen_id, k.name, 1, k.category,
                 SummaryOf(k, 1), DetailOf(k, 1), now)

ScannedLists(now) ==
    {<<Feature(ScreenKey, now), Feature(NavKey, now), Feature(SettingsKey, now)>>,
     <<Feature(SettingsKey, now), Feature(ScreenKey, now)>>,
     <<Feature(ScreenKey, now)>>}

ScanOnce ==
    /\ state.scan_count = 0
    /\ \E features \in ScannedLists(Now(state)), source_file \in SourceFiles :
          LET r == merge_scan(state, features, source_file, Now(state))
          IN  /\ state' = r.state
              /\ pre' = state.features
              /\ last' = [op |-> "merge_scan", features |-> features, ret |-> r.ret,
                          again |-> FALSE]
    /\ UNCHANGED <<diskVars, call>>

MatchProject ==
    /\ \E codebase \in MatchCodebases, dry_run \in BOOLEAN :
          LET r == match_codebase(state, codebase, dry_run)
          IN  /\ state' = r.state
              /\ pre' = state.features
              /\ last' = [op |-> "match_codebase", codebase |-> codebase,
                          dry_run |-> dry_run, ret |-> r.ret]
    /\ UNCHANGED <<diskVars, call>>

NextMatch ==
    \/ ScanOnce
    \/ ResolveFeature
    \/ MatchProject

SpecMatch == Init /\ [][NextMatch]_vars

(***************************************************************************)
(* Properties of match_codebase (specification SpecMatch).                 *)
(***************************************************************************)
\* the entries of one list of the last match_codebase result (none when the
\* call returned the error dict)
Listed(list) ==
    IF "error" \in DOMAIN last.ret THEN {}
    ELSE {last.ret[list][n] : n \in 1..Len(last.ret[list])}

ListedIds(list) == {e.feature_id : e \in Listed(list)}

\* C13: after a match_codebase that is no dry run every feature listed under
\* matched is "implemented", and every feature listed under stub or missing
\* or not listed at all has the status it had; after a dry run every feature
\* has the status it had.  An open screen "Food Log" with a 40-line page
\* food-log/page.tsx without "coming soon" is listed under matched, not under
\* stub, and is "implemented" after a call that is no dry run.
C13_WriteBack ==
    last.op = "match_codebase" =>
        /\ Len(state.features) = Len(pre)
        /\ \A i \in 1..Len(pre) :
              /\ (~last.dry_run /\ Before(i).id \in ListedIds("matched"))
                     => After(i).status = "implemented"
              /\ (last.dry_run \/ Before(i).id \notin ListedIds("matched"))
                     => After(i).status = Before(i).status
              /\ (/\ Before(i).name = "Food Log"
                  /\ Before(i).category = "screen"
                  /\ Before(i).status = "open"
                  /\ last.codebase.app_exists
                  /\ last.codebase.routes = <<>>
                  /\ last.codebase.files[1] = [dir |-> <<"(main)", "food-log">>,
                                               lines |-> 40, coming_soon |-> FALSE,
                                               readable |-> TRUE])
                     => /\ Before(i).id \in ListedIds("matched")
                        /\ Before(i).id \notin ListedIds("stub")
                        /\ ~last.dry_run => After(i).status = "implemented"

\* one call that is no dry run implements the matched "Food Log", leaves the
\* stub "Settings" open and does not list the header, which stays deferred
C13_Witness ==
    /\ last.op = "match_codebase"
    /\ ~last.dry_run
    /\ \E i \in 1..Len(pre) :
          /\ Before(i).name = "Food Log"
          /\ Before(i).id \in ListedIds("matched")
          /\ Before(i).status = "open"
          /\ After(i).status = "implemented"
    /\ \E i \in 1..Len(pre) :
          /\ Before(i).id \in ListedIds("stub")
          /\ After(i).status = "open"
    /\ \E i \in 1..Len(pre) :
          /\ Before(i).id \notin
                ListedIds("matched") \cup ListedIds("stub") \cup ListedIds("missing")
          /\ After(i).status = "deferred"

\* the four strategies in the order of match_codebase, each with the page it
\* finds for the name in the project of the last call (0: none)
Strategies(name) ==
    LET pages     == find_page_files(last.codebase.files)
        route_map == build_route_map(last.codebase.routes)
    IN  <<[via |-> "routes.json",
           page |-> ByRoute(pages, route_map, normalize(name))],
          [via |-> "exact_slug", page |-> ByExactSlug(pages, slugify(name))],
          [via |-> "last_segment", page |-> ByLastSegment(pages, slugify(name))],
          [via |-> "normalized", page |-> ByNormalized(pages, normalize(name))]>>

\* the strategies that find a page
Finding(name) == {k \in 1..4 : Strategies(name)[k].page # 0}

AllTiers == 1..4
AllStatuses == {"open", "implemented", "deferred", "out_of_scope", "removed_from_design"}

FeatureLists ==
    UNION {[1..n -> [tier : AllTiers, status : AllStatuses]] : n \in 0..MaxFeatures}

InitStats ==
    /\ StoreAtRest
    /\ DiskAtRest(Missing, Missing)
    /\ \E features \in FeatureLists :
          call = [fn |-> "compute_completion", arg |-> features, done |-> FALSE,
                  ret |-> None]

ComputeCompletion ==
    /\ call.fn = "compute_completion"
    /\ ~call.done
    /\ call' = [call EXCEPT !.done = TRUE, !.ret = compute_completion(call.arg)]
    /\ UNCHANGED <<storeVars, diskVars>>

NextStats == ComputeCompletion

SpecStats == InitStats /\ [][NextStats]_vars

(***************************************************************************)
(* Properties of compute_completion (specification SpecStats).             *)
(***************************************************************************)
\* the sum of one field of by_tier over its tiers
RECURSIVE TierSum(_, _)
TierSum(tiers, field) ==
    IF tiers = {} THEN 0
    ELSE LET t == CHOOSE u \in tiers : TRUE
         IN  call.ret.by_tier[t][field] + TierSum(tiers \ {t}, field)

\* p tenths of a percent is num/den*100 rounded to one decimal (a tie
\* goes to the even tenth)
IsRounded(p, num, den) ==
    LET diff == p * den - 1000 * num
        dist == IF diff < 0 THEN -diff ELSE diff
    IN  /\ 2 * dist <= den
        /\ 2 * dist = den => p % 2 = 0

\* C15: the totals of by_tier add up to total, the done counts of by_tier
\* add up to implemented, and pct is implemented/total*100 rounded to one
\* decimal when total > 0, else 0.0.
C15_AggregatesAddUp ==
    (call.fn = "compute_completion" /\ call.done) =>
        LET stats == call.ret
        IN  /\ TierSum(DOMAIN stats.by_tier, "total") = stats.total
            /\ TierSum(DOMAIN stats.by_tier, "done") = stats.implemented
            /\ stats.total = Len(call.arg)
            /\ IF stats.total > 0
               THEN IsRounded(stats.pct, stats.implemented, stats.total)
               ELSE stats.pct = 0

\* three features in two tiers, two of them implemented: 66.7 percent
C15_Witness ==
    /\ call.fn = "compute_completion"
    /\ call.done
    /\ Len(call.arg) = 3
    /\ Cardinality(DOMAIN call.ret.by_tier) = 2
    /\ call.ret.implemented = 2
    /\ call.ret.pct = 667

\* the number of features of the call's argument that have the status
Having(status) == Cardinality({i \in 1..Len(call.arg) : call.arg[i].status = status})

\* C16: each of implemented, deferred, out_of_scope and open in the statistics
\* is the number of features that have exactly that status, also when some
\* features are "removed_from_design".
C16_CountsPerStatus ==
    (call.fn = "compute_completion" /\ call.done) =>
        /\ call.ret.implemented = Having("implemented")
        /\ call.ret.deferred = Having("deferred")
        /\ call.ret.out_of_scope = Having("out_of_scope")
        /\ call.ret.open = Having("open")

(***************************************************************************)
(* detectors/: the detectors that look for keywords in the names of the    *)
(* nodes of each screen.                                                   *)
(***************************************************************************)
\* str(n)
RECURSIVE Str(_)
Str(n) == IF n < 10 THEN Char(Digits, n + 1)
          ELSE Str(n \div 10) \o Char(Digits, (n % 10) + 1)

\* s.replace(c, to) for every character c of `chars`
RECURSIVE ReplaceChars(_, _, _)
ReplaceChars(s, chars, to) ==
    IF Len(s) = 0 THEN ""
    ELSE (IF Char(s, 1) \in chars THEN to ELSE Char(s, 1))
         \o ReplaceChars(Tail(s), chars, to)

\* name.lower().replace(" ", "_").replace("-", "_")
NameKey(name) == ReplaceChars(Lower(name), {" ", "-"}, "_")

\* sep.join(parts)
RECURSIVE JoinWith(_, _)
JoinWith(parts, sep) ==
    IF parts = <<>> THEN ""
    ELSE IF Len(parts) = 1 THEN parts[1]
    ELSE parts[1] \o sep \o JoinWith(Tail(parts), sep)

RECURSIVE Flatten(_)
Flatten(seqs) == IF seqs = <<>> THEN <<>> ELSE Head(seqs) \o Flatten(Tail(seqs))

\* PenDocument.screens, of the children of the root
\* every top-level node taken as a screen
Screens_AnyTop(doc) == doc

Screens(doc) == SelectSeq(doc, is_screen)

\* the groups of a keyword table (a sequence of [key, keys]) that a name
\* matches, in the order of the table
Hits(table, name) == SelectSeq(table, LAMBDA g : AnyIn(g.keys, NameKey(name)))

\* the (group, node name) pairs a detector records for one node: nothing for
\* a node without name, the first matching group only when first_only
NodeEntries(table, n, first_only) ==
    IF n.name = "" THEN <<>>
    ELSE LET h == Hits(table, n.name)
             k == IF first_only /\ Len(h) > 0 THEN 1 ELSE Len(h)
         IN  [i \in 1..k |-> [key |-> h[i].key, value |-> n.name]]

WalkEntries(table, screen, first_only) ==
    LET w == walk(screen)
    IN  Flatten([i \in 1..Len(w) |-> NodeEntries(table, w[i], first_only)])

\* d.setdefault(key, []).append(value) for each pair in order: the dict as the
\* sequence of its items, a new key at the end
RECURSIVE SetDefaultAppend(_, _)
SetDefaultAppend(d, entries) ==
    IF entries = <<>> THEN d
    ELSE LET e == Head(entries)
             known == {i \in 1..Len(d) : d[i].key = e.key}
             d1 == IF known = {} THEN Append(d, [key |-> e.key, values |-> <<e.value>>])
                   ELSE [i \in 1..Len(d) |->
                            IF i \in known
                            THEN [d[i] EXCEPT !.values = Append(@, e.value)]
                            ELSE d[i]]
         IN  SetDefaultAppend(d1, Tail(entries))

\* detectors/navigation.py
NAV_PATTERNS ==
    <<[key |-> "tab_bar", keys |-> {"tabbar", "tab_bar", "bottom_nav", "bottomnav",
                                    "navigation_bar", "navbar"}],
      [key |-> "sidebar", keys |-> {"sidebar", "side_nav", "sidenav", "drawer",
                                    "nav_drawer"}],
      [key |-> "back_button", keys |-> {"back", "back_button", "back_arrow",
                                        "chevron_left", "arrow_left"}],
      [key |-> "header", keys |-> {"header", "topbar", "top_bar", "app_bar", "appbar",
                                   "screen_header"}],
      [key |-> "breadcrumb", keys |-> {"breadcrumb", "bread_crumb"}]>>

\* a navigation detector that gives every pattern tier 2
NavigationFeatures_Tier2(screen, now) ==
    LET nav_found == SetDefaultAppend(<<>>, WalkEntries(NAV_PATTERNS, screen, TRUE))
    IN  [i \in 1..Len(nav_found) |->
            LET pattern_type == nav_found[i].key
                instances == nav_found[i].values
            IN  make_feature("navigation", screen.id, screen.name \o "::" \o pattern_type,
                    2, "navigation",
                    "Nav: " \o pattern_type \o " in " \o screen.name \o " ("
                        \o Str(Len(instances)) \o " elements)",
                    [pattern_type |-> pattern_type, instances |-> instances,
                     screen_name |-> screen.name],
                    now)]

NavigationFeatures(screen, now) ==
    LET nav_found == SetDefaultAppend(<<>>, WalkEntries(NAV_PATTERNS, screen, TRUE))
    IN  [i \in 1..Len(nav_found) |->
            LET pattern_type == nav_found[i].key
                instances == nav_found[i].values
            IN  make_feature("navigation", screen.id, screen.name \o "::" \o pattern_type,
                    IF pattern_type \in {"header", "back_button"} THEN 1 ELSE 2,
                    "navigation",
                    "Nav: " \o pattern_type \o " in " \o screen.name \o " ("
                        \o Str(Len(instances)) \o " elements)",
                    [pattern_type |-> pattern_type, instances |-> instances,
                     screen_name |-> screen.name],
                    now)]

NavigationDetector_detect(doc, now) ==
    LET screens == Screens(doc)
    IN  Flatten([i \in 1..Len(screens) |-> NavigationFeatures(screens[i], now)])

\* detectors/interactive.py
INTERACTIVE_PATTERNS ==
    <<[key |-> "tabs", keys |-> {"tab", "segment", "tab_bar", "segmented_control"}],
      [key |-> "modals", keys |-> {"modal", "dialog", "sheet", "bottom_sheet", "overlay",
                                   "popup", "alert"}],
      [key |-> "accordions", keys |-> {"accordion", "expandable", "collapsible",
                                       "dropdown_section"}],
      [key |-> "swipe", keys |-> {"swipe", "swipeable", "slide_action", "dismiss"}],
      [key |-> "drag_drop", keys |-> {"drag", "reorder", "sortable", "draggable"}]>>

InteractiveFeatures(screen, now) ==
    LET patterns_found ==
            SetDefaultAppend(<<>>, WalkEntries(INTERACTIVE_PATTERNS, screen, FALSE))
    IN  [i \in 1..Len(patterns_found) |->
            LET pattern_type == patterns_found[i].key
                instances == patterns_found[i].values
            IN  make_feature("interactive", screen.id,
                    screen.name \o "::" \o pattern_type,
                    IF pattern_type \in {"swipe", "drag_drop"} THEN 3 ELSE 2,
                    "interactive",
                    "Interactive: " \o pattern_type \o " in " \o screen.name \o " ("
                        \o Str(Len(instances)) \o " elements)",
                    [pattern |-> pattern_type, instances |-> instances,
                     screen_name |-> screen.name],
                    now)]

InteractiveDetector_detect(doc, now) ==
    LET screens == Screens(doc)
    IN  Flatten([i \in 1..Len(screens) |-> InteractiveFeatures(screens[i], now)])

\* detectors/data_display.py: a feature for each kind that has instances, in
\* the order lists, cards, charts, tables
DATA_PATTERNS ==
    <<[key |-> "lists", keys |-> {"list", "row", "item", "cell", "feed", "timeline"},
       tier |-> 2, label |-> "Lists", pattern |-> "list"],
      [key |-> "cards", keys |-> {"card", "tile", "panel", "widget", "stat_card",
                                  "info_card"},
       tier |-> 2, label |-> "Cards", pattern |-> "card"],
      [key |-> "charts", keys |-> {"chart", "graph", "ring", "donut", "progress",
                                   "sparkline", "bar_chart", "line_chart", "pie",
                                   "gauge", "meter"},
       tier |-> 3, label |-> "Charts", pattern |-> "chart"],
      [key |-> "tables", keys |-> {"table", "grid", "spreadsheet", "data_grid"},
       tier |-> 3, label |-> "Tables", pattern |-> "table"]>>

DataDisplayFeatures(screen, now) ==
    LET entries == WalkEntries(DATA_PATTERNS, screen, FALSE)
        found(g) == LET sel == SelectSeq(entries, LAMBDA e : e.key = g.key)
                    IN  [i \in 1..Len(sel) |-> sel[i].value]
        kinds == SelectSeq(DATA_PATTERNS, LAMBDA g : found(g) # <<>>)
    IN  [i \in 1..Len(kinds) |->
            make_feature("data_display", screen.id, screen.name \o "::" \o kinds[i].key,
                kinds[i].tier, "data_display",
                kinds[i].label \o ": " \o Str(Len(found(kinds[i]))) \o " in "
                    \o screen.name,
                [pattern |-> kinds[i].pattern, instances |-> found(kinds[i]),
                 screen_name |-> screen.name],
                now)]

DataDisplayDetector_detect(doc, now) ==
    LET screens == Screens(doc)
    IN  Flatten([i \in 1..Len(screens) |-> DataDisplayFeatures(screens[i], now)])

\* detectors/crud.py
CRUD_PATTERNS ==
    <<[key |-> "create", keys |-> {"add", "create", "new", "plus", "compose"}],
      [key |-> "edit", keys |-> {"edit", "modify", "update", "pencil", "pen"}],
      [key |-> "delete", keys |-> {"delete", "remove", "trash", "bin", "discard"}],
      [key |-> "detail", keys |-> {"detail", "view", "info", "profile", "preview"}],
      [key |-> "empty_state", keys |-> {"empty", "no_data", "no_items", "placeholder",
                                        "zero_state", "blank"}]>>

\* text[:30]
Prefix30 == 30

\* the entries of the texts of a screen
TextEntries(texts) ==
    Flatten([i \in 1..Len(texts) |->
        LET text_lower == Lower(texts[i])
            shown == "text: " \o SubSeq(texts[i], 1,
                                        IF Len(texts[i]) < Prefix30 THEN Len(texts[i])
                                        ELSE Prefix30)
        IN  (IF \E p \in {"add ", "create ", "new "} : Contains(text_lower, p)
             THEN <<[key |-> "create", value |-> shown]>> ELSE <<>>)
            \o (IF \E p \in {"no items", "nothing here", "get started", "empty"} :
                      Contains(text_lower, p)
                THEN <<[key |-> "empty_state", value |-> shown]>> ELSE <<>>)])

CrudFeatures(screen, now) ==
    LET crud_ops == SetDefaultAppend(<<>>,
                        WalkEntries(CRUD_PATTERNS, screen, FALSE)
                        \o TextEntries(find_text_content(screen)))
        ops_summary == JoinWith([i \in 1..Len(crud_ops) |->
                           crud_ops[i].key \o "(" \o Str(Len(crud_ops[i].values)) \o ")"],
                           ", ")
    IN  IF crud_ops = <<>> THEN <<>>
        ELSE <<make_feature("crud", screen.id, screen.name \o "::crud", 2, "crud",
                   "CRUD: " \o ops_summary \o " in " \o screen.name,
                   [operations |-> crud_ops, screen_name |-> screen.name],
                   now)>>

CrudDetector_detect(doc, now) ==
    LET screens == Screens(doc)
    IN  Flatten([i \in 1..Len(screens) |-> CrudFeatures(screens[i], now)])

\* detectors/form.py
INPUT_PATTERNS ==
    {"input", "field", "text_field", "textfield", "textarea", "search", "searchbar",
     "search_bar", "select", "dropdown", "picker", "combo", "toggle", "switch",
     "checkbox", "check_box", "slider", "range", "radio", "radio_button", "date",
     "datepicker", "date_picker", "time_picker", "stepper", "number_input",
     "password", "email"}

BUTTON_PATTERNS ==
    {"button", "btn", "cta", "submit", "save", "cancel", "confirm", "action",
     "primary_button", "secondary_button"}

classify_input(name) ==
    LET name_lower == NameKey(name)
    IN  IF AnyIn({"toggle", "switch"}, name_lower) THEN "toggle"
        ELSE IF AnyIn({"slider", "range"}, name_lower) THEN "slider"
        ELSE IF AnyIn({"select", "dropdown", "picker", "combo"}, name_lower) THEN "select"
        ELSE IF AnyIn({"checkbox", "check_box", "radio"}, name_lower) THEN "checkbox"
        ELSE IF AnyIn({"search"}, name_lower) THEN "search"
        ELSE IF AnyIn({"date", "time"}, name_lower) THEN "date"
        ELSE IF AnyIn({"textarea"}, name_lower) THEN "textarea"
        ELSE IF AnyIn({"stepper", "number"}, name_lower) THEN "number"
        ELSE "text"

\* a form with up to this many inputs has tier 2, and the summary names the
\* types of the first so many
FORM_SIMPLE_INPUTS == 5

FormFeatures(screen, now) ==
    LET named == SelectSeq(walk(screen), LAMBDA n : n.name # "")
        fields == SelectSeq(named, LAMBDA n : AnyIn(INPUT_PATTERNS, NameKey(n.name)))
        pressed == SelectSeq(named, LAMBDA n : AnyIn(BUTTON_PATTERNS, NameKey(n.name)))
        inputs == [i \in 1..Len(fields) |->
                      [name |-> fields[i].name, type |-> classify_input(fields[i].name),
                       node_id |-> fields[i].id]]
        shown == IF Len(inputs) < FORM_SIMPLE_INPUTS THEN Len(inputs)
                 ELSE FORM_SIMPLE_INPUTS
    IN  IF inputs = <<>> THEN <<>>
        ELSE <<make_feature("form", screen.id, screen.name \o "::form",
                   IF Len(inputs) <= FORM_SIMPLE_INPUTS THEN 2 ELSE 3, "form",
                   "Form: " \o Str(Len(inputs)) \o " inputs in " \o screen.name \o " ("
                       \o JoinWith([i \in 1..shown |-> inputs[i].type], ", ") \o ")",
                   [inputs |-> inputs,
                    buttons |-> [i \in 1..Len(pressed) |-> pressed[i].name],
                    screen_name |-> screen.name,
                    input_count |-> Len(inputs),
                    input_types |-> {inputs[i].type : i \in 1..Len(inputs)}],
                   now)>>

FormDetector_detect(doc, now) ==
    LET screens == Screens(doc)
    IN  Flatten([i \in 1..Len(screens) |-> FormFeatures(screens[i], now)])

\* detectors/component.py: a feature for every reusable node of the tree, with
\* the number of ref nodes of the screens that name it
ComponentDetector_detect(doc, now) ==
    LET all == WalkAll(doc)
        components == SelectSeq(all, LAMBDA n : n.reusable)
        screens == Screens(doc)
        refs(screen) == SelectSeq(walk(screen), LAMBDA n : n.type = "ref" /\ n.ref # "")
        usage(c) == Len(SelectSeq(Flatten([i \in 1..Len(screens) |-> refs(screens[i])]),
                                  LAMBDA n : n.ref = c.id))
        used(c) == SelectSeq(screens, LAMBDA s :
                       s.name # "" /\ \E n \in {refs(s)[i] : i \in 1..Len(refs(s))} :
                                         n.ref = c.id)
        screens_used(c) ==
            LET names == [i \in 1..Len(used(c)) |-> used(c)[i].name]
            IN  SelectSeq([i \in 1..Len(names) |-> [i |-> i, name |-> names[i]]],
                          LAMBDA e : \A j \in 1..(e.i - 1) : names[j] # e.name)
    IN  [i \in 1..Len(components) |->
            LET comp == components[i]
                name == IF comp.name # "" THEN comp.name ELSE comp.id
            IN  make_feature("component", comp.id, name, 1, "component",
                    "Component: " \o name \o " (used " \o Str(usage(comp)) \o "x across "
                        \o Str(Len(screens_used(comp))) \o " screens)",
                    [usage_count |-> usage(comp),
                     screens_used |-> [j \in 1..Len(screens_used(comp)) |->
                                          screens_used(comp)[j].name],
                     child_count |-> Len(walk(comp)) - 1,
                     node_types |-> count_by_type(comp)],
                    now)]

\* detectors/__init__.py
run_all_detectors(doc, now) ==
    ScreenDetector_detect(doc, now)
    \o ComponentDetector_detect(doc, now)
    \o NavigationDetector_detect(doc, now)
    \o FormDetector_detect(doc, now)
    \o DataDisplayDetector_detect(doc, now)
    \o InteractiveDetector_detect(doc, now)
    \o CrudDetector_detect(doc, now)

(***************************************************************************)
(* Scan and resolve on designs: cmd_scan runs all detectors on the         *)
(* document and merges their features; cmd_resolve resolves by pattern.    *)
(***************************************************************************)
\* one top-level frame "Settings" with a header and a text
SettingsScreen ==
    PenNode("n1", "frame", "Settings", "", FALSE,
            <<PenNode("h1", "frame", "header", "", FALSE, <<>>),
              PenNode("t1", "text", "", "Settings", FALSE, <<>>)>>)

SettingsDoc == <<SettingsScreen>>

\* a second screen with a list, an instance of a component and an add button,
\* and the component
FoodLogScreen ==
    PenNode("n2", "frame", "Food Log", "", FALSE,
            <<RefNode("s1", "searchBar", "c1"),
              PenNode("ml", "frame", "mealList", "", FALSE,
                      <<PenNode("r1", "frame", "breakfastRow", "", FALSE, <<>>)>>),
              PenNode("ab", "frame", "addFoodButton", "", FALSE,
                      <<PenNode("at", "text", "", "Add Food", FALSE, <<>>)>>)>>)

SearchBarComponent ==
    PenNode("c1", "frame", "SearchBar", "", TRUE,
            <<PenNode("si", "frame", "search_input", "", FALSE, <<>>)>>)

DesignDocs ==
    {<<>>, SettingsDoc, <<SettingsScreen, FoodLogScreen, SearchBarComponent>>}

\* run_all_detectors depends on the document and the clock only: it is
\* evaluated once for each pair
DetectedTable ==
    [doc \in DesignDocs |-> [now \in 1..MaxScans |-> run_all_detectors(doc, now)]]

ScanDesign ==
    /\ state.scan_count < MaxScans
    /\ \E doc \in DesignDocs, source_file \in SourceFiles :
          LET features == DetectedTable[doc][Now(state)]
              r == merge_scan(state, features, source_file, Now(state))
          IN  /\ state' = r.state
              /\ pre' = state.features
              /\ last' = [op |-> "merge_scan", features |-> features, ret |-> r.ret,
                          again |-> SameFresh(last, features)]
              /\ call' = [fn |-> "run_all_detectors", arg |-> doc, done |-> TRUE,
                          ret |-> features]
    /\ UNCHANGED diskVars

NextDesign ==
    \/ ScanDesign
    \/ ResolveFeature

SpecDesign == Init /\ [][NextDesign]_vars

(***************************************************************************)
(* Properties of scan and resolve on designs (specification SpecDesign).   *)
(***************************************************************************)
\* the last document scanned is the one with the single frame "Settings",
\* that has a header node and a text node and nothing else
SettingsScanned ==
    /\ call.fn = "run_all_detectors"
    /\ Len(call.arg) = 1
    /\ call.arg[1].id = "n1"
    /\ call.arg[1].name = "Settings"
    /\ call.arg[1].type = "frame"
    /\ Len(call.arg[1].children) = 2
    /\ call.arg[1].children[1].name = "header"
    /\ call.arg[1].children[2].type = "text"

\* the last operation resolved by the node id of the Settings screen
ResolvedByNodeId ==
    /\ SettingsScanned
    /\ last.op = "resolve_feature"
    /\ last.pattern = "n1"
    /\ last.status = "implemented"

IsSettingsScreen(f) == f.detector = "screen" /\ f.screen_id = "n1"

\* a scan of the Settings document leaves an implemented Screen feature
\* implemented
RescanKeepsImplemented ==
    (SettingsScanned /\ last.op = "merge_scan") =>
        \A i \in 1..Len(pre) :
            (IsSettingsScreen(Before(i)) /\ Before(i).status = "implemented")
                => After(i).status = "implemented"

\* C17 (as stated): after a scan of the Settings document, resolve_feature
\* with the screen's node id and "implemented" sets the status of the open
\* Screen feature and leaves every other feature as it was; another scan of
\* the same document leaves the Screen feature "implemented".
C17_ResolveTouchesScreenOnly ==
    /\ ResolvedByNodeId =>
          \A i \in 1..Len(pre) :
              IF IsSettingsScreen(Before(i))
              THEN Before(i).status = "open" => After(i).status = "implemented"
              ELSE After(i) = Before(i)
    /\ RescanKeepsImplemented

\* C17 (amended): resolve_feature with the screen's node id and "implemented"
\* sets the status of the open Screen feature and of every other open
\* feature that has this node id as its originating node or in its id (the
\* navigation feature of the header), and leaves every other feature as it
\* was; another scan of the same document leaves the Screen feature
\* "implemented".
C17_ResolveTouchesFeaturesOfScreen ==
    /\ ResolvedByNodeId =>
          \A i \in 1..Len(pre) :
              IF IsSettingsScreen(Before(i)) \/ Selected(i)
              THEN IF Before(i).status = "open"
                   THEN After(i) = [Before(i) EXCEPT !.status = "implemented"]
                   ELSE After(i) = Before(i)
              ELSE After(i) = Before(i)
    /\ RescanKeepsImplemented

\* the Settings document is scanned again after the resolve by node id made
\* the Screen feature and the header's navigation feature implemented; both
\* stay implemented
C17_Witness ==
    /\ SettingsScanned
    /\ last.op = "merge_scan"
    /\ last.again
    /\ Len(pre) = 2
    /\ \E i \in 1..Len(pre) :
          /\ IsSettingsScreen(Before(i))
          /\ Before(i).tier = 1
          /\ Before(i).status = "implemented"
          /\ After(i).status = "implemented"
    /\ \E i \in 1..Len(pre) :
          /\ Before(i).id = "navigation::n1::Settings::header"
          /\ After(i).status = "implemented"

(***************************************************************************)
(* state.py: make_feature called twice, by any detectors, in any scans.    *)
(***************************************************************************)
\* the detector names the detectors pass to make_feature
DetectorNames ==
    {"screen", "component", "navigation", "form", "data_display", "interactive",
     "crud"}

\* node ids and feature names, some with the separator of the id in them
NodeIds == {"n1", "n1::Settings", ""}
Names == {"", "Settings", "Settings::header", "n1::Settings"}

Triples == [detector : DetectorNames, screen_id : NodeIds, name : Names]

InitIds ==
    /\ StoreAtRest
    /\ DiskAtRest(Missing, Missing)
    /\ \E a \in Triples, b \in Triples, now_a \in 1..MaxScans, now_b \in 1..MaxScans :
          call = [fn |-> "make_feature",
                  arg |-> <<[key |-> a, now |-> now_a], [key |-> b, now |-> now_b]>>,
                  done |-> FALSE, ret |-> <<>>]

MakeFeatures ==
    /\ call.fn = "make_feature"
    /\ ~call.done
    /\ call' = [call EXCEPT
                   !.done = TRUE,
                   !.ret = [k \in 1..2 |->
                               make_feature(call.arg[k].key.detector,
                                            call.arg[k].key.screen_id,
                                            call.arg[k].key.name, 1, "screen", "", <<>>,
                                            call.arg[k].now)]]
    /\ UNCHANGED <<storeVars, diskVars>>

NextIds == MakeFeatures

SpecIds == InitIds /\ [][NextIds]_vars

(***************************************************************************)
(* Properties of make_feature (specification SpecIds).                     *)
(***************************************************************************)
\* C18: the id of a feature is detector::node-id::name, or detector::node-id
\* when the name is empty; two features made from the same (detector, node
\* id, name) have the same id whatever the scan; two features of different
\* detectors have different ids.
C18_StableId ==
    (call.fn = "make_feature" /\ call.done) =>
        /\ \A k \in 1..2 :
              LET key == call.arg[k].key
              IN  call.ret[k].id =
                      IF key.name = "" THEN key.detector \o "::" \o key.screen_id
                      ELSE key.detector \o "::" \o key.screen_id \o "::" \o key.name
        /\ call.arg[1].key = call.arg[2].key => call.ret[1].id = call.ret[2].id
        /\ call.arg[1].key.detector # call.arg[2].key.detector
               => call.ret[1].id # call.ret[2].id

\* the same detector, node and empty name in two scans: the id is the same
\* and has two parts
C18_Witness ==
    /\ call.fn = "make_feature"
    /\ call.done
    /\ call.arg[1].key = call.arg[2].key
    /\ call.arg[1].key.name = ""
    /\ call.arg[1].now # call.arg[2].now
    /\ call.ret[1].id = "navigation::n1"
    /\ call.ret[2].id = "navigation::n1"
    /\ call.ret[1].first_seen # call.ret[2].first_seen

(***************************************************************************)
(* Properties of the diff summary of merge_scan (specification Spec).      *)
(***************************************************************************)
\* C19: merge_scan returns as new the number of distinct ids of the fresh
\* set that were not in the mapping before the call, as removed the number
\* of features whose status the call changed from "open" to
\* "removed_from_design", and as total the number of distinct ids of the
\* fresh set.
C19_DiffSummary ==
    last.op = "merge_scan" =>
        /\ last.ret.new =
              Cardinality({last.features[k].id : k \in 1..Len(last.features)}
                          \ {pre[i].id : i \in 1..Len(pre)})
        /\ last.ret.removed =
              Cardinality({i \in 1..Len(pre) :
                              /\ Before(i).status = "open"
                              /\ After(i).status = "removed_from_design"})
        /\ last.ret.total =
              Cardinality({last.features[k].id : k \in 1..Len(last.features)})

\* a fresh set of two records with one id, which is new, while the one open
\* feature of the mapping is gone: new 1, removed 1, total 1
C19_Witness ==
    /\ last.op = "merge_scan"
    /\ Len(last.features) = 2
    /\ last.features[1].id = last.features[2].id
    /\ Len(pre) = 1
    /\ Before(1).status = "open"
    /\ After(1).status = "removed_from_design"
    /\ last.ret = [new |-> 1, removed |-> 1, total |-> 1]

(***************************************************************************)
(* Properties of the backup file (specification SpecSave).                 *)
(***************************************************************************)
\* C20: when a save_state call has completed and no step of any call so far
\* raised an OSError, the state file holds the content of that call and the
\* backup holds what the state file held when the call began; when there was
\* no state file then, the call wrote no backup.
C20_BackupIsPreviousVersion ==
    (pc[1] = "idle" /\ outcome[1] = "replaced" /\ faults = 0) =>
        /\ target = [k |-> "full", v |-> content[1], by |-> 0]
        /\ before[1].k # "missing" => backup = before[1]
        /\ before[1].k = "missing" => (backup.k # "part" /\ backup.v = 0)

\* three saves in a row: the state file holds the third content, the backup
\* the second
C20_Witness ==
    /\ pc[1] = "idle"
    /\ outcome[1] = "replaced"
    /\ faults = 0
    /\ saves = 3
    /\ content[1] = 3
    /\ target = [k |-> "full", v |-> 3, by |-> 0]
    /\ before[1] = [k |-> "full", v |-> 2, by |-> 0]
    /\ backup = [k |-> "full", v |-> 2, by |-> 0]
(***************************************************************************)
(* _is_stub_page on page texts (specification SpecStub).                   *)
(***************************************************************************)
MaxCodeLines == 31
MaxBlankLines == 21

\* the text of a page file: `lead` blank lines, then `code` non-blank lines
\* with `inner` blank lines between them, then `trail` blank lines; `phrase`
\* is written in one of the non-blank lines ("" when it is in none)
Phrases == {"", "coming soon", "Coming Soon", "coming  soon"}

PageTexts ==
    {[lead |-> l, code |-> c, inner |-> i, trail |-> t, phrase |-> p] :
        l \in 0..1, c \in 0..MaxCodeLines, i \in 0..MaxBlankLines,
        t \in 0..1, p \in Phrases}

\* a text the file system can hold: blank lines lie between two non-blank
\* lines, and the phrase has a line to stand in
WellFormed(text) ==
    /\ text.inner > 0 => text.code >= 2
    /\ text.phrase # "" => text.code >= 1

\* len(content.strip().splitlines()): strip() drops the blank lines before
\* the first and after the last non-blank line, the blank lines between stay
StrippedLines(text) == IF text.code = 0 THEN 0 ELSE text.code + text.inner

\* "coming soon" in content.lower()
HasComingSoon(text) == Contains(Lower(text.phrase), "coming soon")

\* what _is_stub_page gets to see of a page file
PageFile(dirparts, text, readable) ==
    [dir |-> dirparts, lines |-> StrippedLines(text),
     coming_soon |-> HasComingSoon(text), readable |-> readable, text |-> text]

\* a page was found for a screen: its file is any well-formed text, readable
\* or not
InitStub ==
    /\ StoreAtRest
    /\ DiskAtRest(Missing, Missing)
    /\ \E text \in PageTexts, readable \in BOOLEAN :
          /\ WellFormed(text)
          /\ call = [fn |-> "_is_stub_page",
                     arg |-> PageFile(<<"food-log">>, text, readable),
                     done |-> FALSE, ret |-> None]

\* the classification of the found page in match_codebase
ClassifyPage ==
    /\ call.fn = "_is_stub_page"
    /\ ~call.done
    /\ call' = [call EXCEPT !.done = TRUE,
                            !.ret = Classify(<<[file |-> call.arg]>>, [page |-> 1])]
    /\ UNCHANGED <<storeVars, diskVars>>

NextStub == ClassifyPage

SpecStub == InitStub /\ [][NextStub]_vars

\* C21 (as stated): a found page file is classified "stub" if and only if it
\* has fewer than 10 non-blank lines, or it contains "coming soon" and has
\* fewer than 30 lines; otherwise it is classified "implemented" (reported
\* under matched).
C21_StubIffFewNonBlankLines ==
    (call.fn = "_is_stub_page" /\ call.done /\ call.arg.readable) =>
        /\ call.ret \in {"stub", "matched"}
        /\ call.ret = "stub" <=>
              \/ call.arg.text.code < 10
              \/ /\ call.arg.text.phrase = "coming soon"
                 /\ call.arg.text.code + call.arg.text.inner < 30

\* C21 (amended): a found page file is classified "stub" if and only if it
\* cannot be read, or its text without the leading and trailing blank lines
\* has fewer than 10 lines (blank lines between text lines counted), or the
\* text contains "coming soon" in any letter case and has fewer than 30 such
\* lines; otherwise it is classified "implemented".
C21_StubIffFewLines ==
    (call.fn = "_is_stub_page" /\ call.done) =>
        LET text  == call.arg.text
            lines == IF text.code = 0 THEN 0 ELSE text.code + text.inner
        IN  /\ call.ret \in {"stub", "matched"}
            /\ call.ret = "stub" <=>
                  \/ ~call.arg.readable
                  \/ lines < 10
                  \/ /\ text.phrase \in {"coming soon", "Coming Soon"}
                     /\ lines < 30

\* a readable page of 9 non-blank lines and 1 blank line between them, without
\* the phrase, is classified implemented
C21_Witness ==
    /\ call.fn = "_is_stub_page"
    /\ call.done
    /\ call.arg.readable
    /\ call.arg.text.code = 9
    /\ call.arg.text.inner = 1
    /\ call.arg.text.phrase = ""
    /\ call.ret = "matched"
(***************************************************************************)
(* The page search of match_codebase over route manifests with unusable    *)
(* entries (specification SpecRoutes).                                     *)
(***************************************************************************)
MaxRoutes == 2
MaxPages == 2

\* entries of routes.json: a field the entry lacks reads as "" (route.get)
RouteEntries ==
    {RouteTo("/diary"), RouteTo("/app/food-log"), RouteTo(""),
     [is_dict |-> TRUE, screen_name |-> "", path |-> "/diary"],
     [is_dict |-> TRUE, screen_name |-> "Settings", path |-> "/settings"],
     [is_dict |-> FALSE, screen_name |-> "", path |-> ""]}

PageFiles == {FoodLogPage, SettingsStub, DiaryPage, TabsFoodLog}

\* the sequences over S of length at most n
RECURSIVE SeqsUpTo(_, _)
SeqsUpTo(S, n) ==
    IF n = 0 THEN {<<>>}
    ELSE LET R == SeqsUpTo(S, n - 1)
         IN  R \cup {Append(q, x) : q \in R, x \in S}

\* a directory holds each page file once
NoRepeat(q) == \A i, j \in 1..Len(q) : q[i] = q[j] => i = j

RouteProjects ==
    {[app_exists |-> TRUE, files |-> files, routes |-> routes] :
        files \in {q \in SeqsUpTo(PageFiles, MaxPages) : NoRepeat(q)},
        routes \in SeqsUpTo(RouteEntries, MaxRoutes)}

\* match_codebase meets an open screen feature in a project
InitRoutes ==
    /\ StoreAtRest
    /\ DiskAtRest(Missing, Missing)
    /\ \E codebase \in RouteProjects, name \in {"Food Log", "Settings"} :
          call = [fn |-> "match_codebase", arg |-> [codebase |-> codebase, name |-> name],
                  done |-> FALSE, ret |-> None]

\* the loop body of match_codebase for that feature
SearchPage ==
    /\ call.fn = "match_codebase"
    /\ ~call.done
    /\ call' = [call EXCEPT !.done = TRUE,
                            !.ret = PageSearch(call.arg.codebase, call.arg.name)]
    /\ UNCHANGED <<storeVars, diskVars>>

NextRoutes == SearchPage

SpecRoutes == InitRoutes /\ [][NextRoutes]_vars

\* the manifest entries with a screen_name and a path that name the feature of
\* the call
UsableEntries ==
    LET routes == call.arg.codebase.routes
    IN  {i \in 1..Len(routes) :
            /\ routes[i].is_dict
            /\ routes[i].screen_name # ""
            /\ routes[i].path # ""
            /\ Keep(Lower(routes[i].screen_name), AlnumLow)
                   = Keep(Lower(call.arg.name), AlnumLow)}

\* C22: a route-manifest entry that lacks screen_name or lacks path never
\* produces a page match through the route-manifest strategy: a page found
\* through routes.json comes from an entry that has both fields; a feature
\* whose only manifest entry has no path is matched, if at all, by the slug,
\* last-segment or normalized-name strategy.
C22_UnusableRouteEntries ==
    (call.fn = "match_codebase" /\ call.done) =>
        ((call.ret.class # "missing" /\ call.ret.matched_via = "routes.json")
            => UsableEntries # {})
(***************************************************************************)
(* _slugify on names (specification SpecSlug).                             *)
(***************************************************************************)
MaxNameLen == 4

\* an upper-case and a lower-case letter, a digit, white space, the hyphen,
\* the underscore and a character the slug drops
NameChars == {"A", "b", "1", " ", "\t", "-", "_", "!"}

\* the strings over NameChars of length at most n
RECURSIVE NamesUpTo(_)
NamesUpTo(n) ==
    IF n = 0 THEN {""}
    ELSE LET R == NamesUpTo(n - 1)
         IN  R \cup {s \o c : s \in R, c \in NameChars}

InitSlug ==
    /\ StoreAtRest
    /\ DiskAtRest(Missing, Missing)
    /\ \E name \in NamesUpTo(MaxNameLen) :
          call = [fn |-> "_slugify", arg |-> name, done |-> FALSE,
                  ret |-> [once |-> "", twice |-> ""]]

\* _slugify(name) and _slugify of its result
Slugify ==
    /\ call.fn = "_slugify"
    /\ ~call.done
    /\ LET slug == slugify(call.arg)
       IN  call' = [call EXCEPT !.done = TRUE,
                                !.ret = [once |-> slug, twice |-> slugify(slug)]]
    /\ UNCHANGED <<storeVars, diskVars>>

NextSlug == Slugify

SpecSlug == InitSlug /\ [][NextSlug]_vars

\* C23: _slugify(_slugify(name)) = _slugify(name), and _slugify(name) holds
\* only lowercase letters, digits and hyphens, no two adjacent hyphens and no
\* leading or trailing hyphen.
C23_SlugRoundTrip ==
    (call.fn = "_slugify" /\ call.done) =>
        LET slug == call.ret.once
            n    == Len(slug)
        IN  /\ call.ret.twice = slug
            /\ \A i \in 1..n :
                  \E j \in 1..37 :
                      SubSeq(slug, i, i)
                          = SubSeq("abcdefghijklmnopqrstuvwxyz0123456789-", j, j)
            /\ \A i \in 1..(n - 1) :
                  ~(SubSeq(slug, i, i) = "-" /\ SubSeq(slug, i + 1, i + 1) = "-")
            /\ n > 0 => (SubSeq(slug, 1, 1) # "-" /\ SubSeq(slug, n, n) # "-")

\* the name "A -b", whose space and hyphen meet, has the slug "a-b"
C23_Witness ==
    /\ call.fn = "_slugify"
    /\ call.done
    /\ call.arg = "A -b"
    /\ call.ret.once = "a-b"
    /\ call.ret.twice = "a-b"
(***************************************************************************)
(* parse_pen_json and run_all_detectors on tree documents that are any     *)
(* JSON (specification SpecParse).  A JSON value carries its type; the     *)
(* fields of a parsed node hold the values as they were in the document.   *)
(***************************************************************************)
MaxItems == 2

JStr(s)  == [t |-> "string", v |-> s]
JNum(n)  == [t |-> "number", v |-> n]
JBool(b) == [t |-> "boolean", v |-> b]
JNull    == [t |-> "null"]
JArr(items) == [t |-> "array", items |-> items]
JObj(fields) == [t |-> "object", fields |-> fields]

\* bool(x) of a value read from JSON
Truthy(x) ==
    CASE x.t = "string"  -> x.v # ""
      [] x.t = "number"  -> x.v # 0
      [] x.t = "boolean" -> x.v
      [] x.t = "null"    -> FALSE
      [] x.t = "array"   -> Len(x.items) > 0
      [] x.t = "object"  -> DOMAIN x.fields # {}

\* lists and dicts cannot be dict keys or set members
Hashable(x) == x.t \notin {"array", "object"}

\* data.get(k, default)
DictGet(data, k, default) == IF k \in DOMAIN data THEN data[k] ELSE default

\* _parse_node: children that are no dict are skipped, a `children` that is
\* no list gives no children; the other fields are taken as they are
RECURSIVE parse_node(_)
parse_node(data) ==
    LET raw_children == DictGet(data, "children", JArr(<<>>))
        dicts == IF raw_children.t = "array"
                 THEN SelectSeq(raw_children.items, LAMBDA c : c.t = "object")
                 ELSE <<>>
    IN  [id       |-> DictGet(data, "id", JStr("")),
         type     |-> DictGet(data, "type", JStr("frame")),
         name     |-> DictGet(data, "name", JStr("")),
         reusable |-> DictGet(data, "reusable", JBool(FALSE)),
         children |-> [i \in 1..Len(dicts) |-> parse_node(dicts[i].fields)]]

parse_pen_json(data) == [root |-> parse_node(data)]

\* node.type == "frame"
IsFrame(n) == n.type.t = "string" /\ n.type.v = "frame"

\* n.name.lower() under `if n.name`: a name that is true and no str has no
\* method lower
NameFails(n) == Truthy(n.name) /\ n.name.t # "string"

\* counts[n.type] in count_by_type, with a type that is a list or a dict
TypeFails(n) == ~Hashable(n.type)

\* the first entry of a sequence of outcomes that is an error
RECURSIVE FirstError(_)
FirstError(outcomes) ==
    IF outcomes = <<>> THEN "none"
    ELSE IF Head(outcomes) # "none" THEN Head(outcomes)
    ELSE FirstError(Tail(outcomes))

\* one pass of the loop of ScreenDetector.detect
ScreenError(screen) ==
    LET w == walk(screen)
    IN  IF ~IsFrame(screen) THEN "none"
        ELSE IF NameFails(screen) THEN "AttributeError"
        ELSE IF Truthy(screen.name) /\ Lower(screen.name.v) \in SYSTEM_NAMES THEN "none"
        ELSE IF Truthy(screen.reusable) THEN "none"
        ELSE IF \E i \in 1..Len(w) : TypeFails(w[i]) THEN "TypeError"
        ELSE IF \E i \in 1..Len(w) : NameFails(w[i]) THEN "AttributeError"
        ELSE "none"

\* ComponentDetector.detect: the set of the component ids, then count_by_type
\* of each component
ComponentError(doc) ==
    LET w     == walk(doc.root)
        comps == {i \in 1..Len(w) : Truthy(w[i].reusable)}
    IN  IF \E i \in comps : ~Hashable(w[i].id) THEN "TypeError"
        ELSE IF \E i \in comps : \E j \in 1..Len(walk(w[i])) : TypeFails(walk(w[i])[j])
        THEN "TypeError"
        ELSE "none"

\* the five detectors of named nodes walk every screen of doc.screens and
\* lower the name of every node that has one
PatternError(doc) ==
    LET tops == doc.root.children
    IN  IF \E i \in 1..Len(tops) :
              /\ IsFrame(tops[i])
              /\ ~Truthy(tops[i].reusable)
              /\ \E j \in 1..Len(walk(tops[i])) : NameFails(walk(tops[i])[j])
        THEN "AttributeError"
        ELSE "none"

\* the exception run_all_detectors ends with, "none" when it returns
DetectError(doc) ==
    FirstError([i \in 1..Len(doc.root.children) |-> ScreenError(doc.root.children[i])]
               \o <<ComponentError(doc), PatternError(doc)>>)

\* values a document may hold in the fields of a node, the expected ones
\* and others
IdValues       == {JStr("n1"), JNum(5), JArr(<<JStr("x")>>)}
TypeValues     == {JStr("text"), JNum(5), JArr(<<JStr("x")>>)}
NameValues     == {JStr("A"), JStr("Components"), JNum(5), JNull}
ReusableValues == {JBool(TRUE), JStr("yes")}
InnerObjects   == {JObj([name |-> JNum(5)]), JObj([type |-> JStr("text"), name |-> JStr("t")])}
NonObjects     == {JNum(5), JStr("x"), JNull}
ChildrenValues == {JNum(5)} \cup {JArr(<<g>>) : g \in InnerObjects \cup {JStr("x")}}

\* the dicts that give each field of `fields` a value of its set or leave
\* it out
FieldSets == [id |-> IdValues, type |-> TypeValues, name |-> NameValues,
              reusable |-> ReusableValues, children |-> ChildrenValues]

RECURSIVE DictsOver(_, _)
DictsOver(values, K) ==
    IF K = {} THEN {<<>>}
    ELSE LET k == CHOOSE x \in K : TRUE
             R == DictsOver(values, K \ {k})
         IN  R \cup {d @@ (k :> v) : d \in R, v \in values[k]}

Dicts(values) == DictsOver(values, DOMAIN values)

TopObjects == {JObj(d) : d \in Dicts(FieldSets)}

\* lists of up to MaxItems entries of which at most one is a dict
InsertAt(q, p, x) == SubSeq(q, 1, p - 1) \o <<x>> \o SubSeq(q, p, Len(q))

ItemLists ==
    SeqsUpTo(NonObjects, MaxItems)
    \cup UNION {{InsertAt(q, p, x) : p \in 1..(Len(q) + 1), x \in TopObjects} :
                  q \in SeqsUpTo(NonObjects, MaxItems - 1)}

TreeDocuments ==
    {<<>>, [children |-> JNum(5)]}
    \cup {[children |-> JArr(items)] : items \in ItemLists}
    \cup {[id |-> JArr(<<>>), reusable |-> JBool(TRUE), children |-> JArr(<<x>>)] :
             x \in InnerObjects}

InitParse ==
    /\ StoreAtRest
    /\ DiskAtRest(Missing, Missing)
    /\ \E data \in TreeDocuments :
          call = [fn |-> "parse_pen_json", arg |-> data, done |-> FALSE,
                  ret |-> [error |-> "none"]]

\* parse_pen_json(data), then run_all_detectors on the document
ParseAndDetect ==
    /\ call.fn = "parse_pen_json"
    /\ ~call.done
    /\ LET doc == parse_pen_json(call.arg)
       IN  call' = [call EXCEPT !.done = TRUE,
                                !.ret = [doc |-> doc, error |-> DetectError(doc)]]
    /\ UNCHANGED <<storeVars, diskVars>>

NextParse == ParseAndDetect

SpecParse == InitParse /\ [][NextParse]_vars
\* the fields of the parsed root and of its children against the document
DefaultsHold(data, node) ==
    /\ "type" \notin DOMAIN data => node.type = JStr("frame")
    /\ "id" \notin DOMAIN data => node.id = JStr("")
    /\ "name" \notin DOMAIN data => node.name = JStr("")
    /\ ("children" \notin DOMAIN data \/ data["children"].t # "array")
           => node.children = <<>>
    /\ ("children" \in DOMAIN data /\ data["children"].t = "array")
           => Len(node.children)
                  = Cardinality({i \in 1..Len(data["children"].items) :
                                    data["children"].items[i].t = "object"})

\* the dict entries of the list of children of the document, in order
TopDicts ==
    IF "children" \in DOMAIN call.arg /\ call.arg["children"].t = "array"
    THEN SelectSeq(call.arg["children"].items, LAMBDA c : c.t = "object")
    ELSE <<>>

\* C24: for every tree document whose fields id, type, name, children,
\* reusable are missing or of an unexpected JSON type, and whose children
\* hold non-objects, parse_pen_json followed by run_all_detectors completes
\* without raising; a missing type reads as "frame", a missing id or name as
\* the empty string, children that are no list as no children, and entries of
\* children that are no object are skipped.
C24_MalformedInputNeverFatal ==
    (call.fn = "parse_pen_json" /\ call.done) =>
        /\ call.ret.error = "none"
        /\ DefaultsHold(call.arg, call.ret.doc.root)
        /\ \A i \in 1..Len(TopDicts) :
              DefaultsHold(TopDicts[i].fields, call.ret.doc.root.children[i])
(***************************************************************************)
(* The units of the Screen detector (specification SpecScreen).            *)
(***************************************************************************)
\* the top-level nodes of the call's document that are frames, not reusable
\* and not named like a design-system container
ScreenUnits ==
    {t \in 1..Len(call.arg) :
        /\ call.arg[t].type = "frame"
        /\ ~call.arg[t].reusable
        /\ call.arg[t].name \notin {"Components", "components", "Design System",
                                    "Symbols", "Tokens", "Colors", "Typography",
                                    "Icons", "Library", "Assets", "Styles"}}

\* the ids of all nodes of the call's document
AllNodeIds == UNION {{n.id : n \in Subtree(call.arg[t])} : t \in 1..Len(call.arg)}

\* C25: ScreenDetector.detect emits exactly one Screen feature for each direct
\* child of the root that is a frame, is not reusable and is not named like a
\* design-system container, and no feature for any other node (nested
\* frames, reusable frames, nodes that are no frame).
C25_OneFeaturePerScreenUnit ==
    (call.fn = "ScreenDetector.detect" /\ call.done) =>
        /\ \A t \in ScreenUnits :
              Cardinality({i \in 1..Len(call.ret) :
                              call.ret[i].screen_id = call.arg[t].id}) = 1
        /\ \A i \in 1..Len(call.ret) :
              /\ call.ret[i].detector = "screen"
              /\ call.ret[i].category = "screen"
              /\ \E t \in ScreenUnits : call.ret[i].screen_id = call.arg[t].id
        /\ \A id \in AllNodeIds \ {call.arg[t].id : t \in ScreenUnits} :
              \A i \in 1..Len(call.ret) : call.ret[i].screen_id # id

\* a document of a screen with a nested frame and a reusable frame has one
\* feature, the screen's
C25_Witness ==
    /\ call.fn = "ScreenDetector.detect"
    /\ call.done
    /\ Len(call.arg) = 2
    /\ ScreenUnits = {1}
    /\ call.arg[2].type = "frame"
    /\ call.arg[2].reusable
    /\ \E k \in 1..Len(call.arg[1].children) : call.arg[1].children[k].type = "frame"
    /\ Len(call.ret) = 1
    /\ call.ret[1].screen_id = call.arg[1].id
(***************************************************************************)
(* One run of all detectors on a document (specification SpecDetect).      *)
(* The children of a top-level node are navigation elements, instances of  *)
(* components and nested components.                                       *)
(***************************************************************************)
DetectKids(id) ==
    {PenNode(id, "frame", "Back Header", "", FALSE, <<>>),
     PenNode(id, "frame", "Top-Bar", "", FALSE, <<>>),
     PenNode(id, "frame", "Bottom Nav", "", FALSE, <<>>),
     PenNode(id, "frame", "", "", FALSE, <<RefNode(id \o "g", "Search", "s2")>>),
     RefNode(id, "Search", "s2"),
     PenNode(id, "frame", "Card", "", TRUE, <<RefNode(id \o "g", "Icon", id)>>)}

RECURSIVE DetectKidSeqs(_, _)
DetectKidSeqs(pid, n) ==
    IF n = 0 THEN {<<>>}
    ELSE {Append(ks, k) : ks \in DetectKidSeqs(pid, n - 1),
                          k \in DetectKids(pid \o "k" \o Char(Digits, n + 1))}

\* the sequences of n top-level nodes named Settings or Components that have
\* at most k children in total
RECURSIVE DetectTops(_, _)
DetectTops(n, k) ==
    IF n = 0 THEN {<<>>}
    ELSE UNION {{Append(ts, PenNode("s" \o Char(Digits, n + 1), kind.type, name, "",
                                    kind.reusable, ks)) :
                    ts \in DetectTops(n - 1, k - j), name \in {"Settings", "Components"},
                    kind \in TopKinds,
                    ks \in DetectKidSeqs("s" \o Char(Digits, n + 1), j)} : j \in 0..k}

DetectDocuments == UNION {DetectTops(n, MaxKids) : n \in 0..MaxTop}

InitDetect ==
    /\ StoreAtRest
    /\ DiskAtRest(Missing, Missing)
    /\ \E doc \in DetectDocuments :
          call = [fn |-> "run_all_detectors", arg |-> doc, done |-> FALSE,
                  ret |-> <<>>]

RunAllDetectors ==
    /\ call.fn = "run_all_detectors"
    /\ ~call.done
    /\ call' = [call EXCEPT !.done = TRUE,
                            !.ret = run_all_detectors(call.arg, Now(state))]
    /\ UNCHANGED <<storeVars, diskVars>>

NextDetect == RunAllDetectors

SpecDetect == InitDetect /\ [][NextDetect]_vars

(***************************************************************************)
(* Properties of one run of the detectors (specification SpecDetect).      *)
(***************************************************************************)
\* the top-level nodes of the call's document that doc.screens holds
DocScreens == {t \in 1..Len(call.arg) : call.arg[t].type = "frame" /\ ~call.arg[t].reusable}

NavTypes == {"tab_bar", "sidebar", "back_button", "header", "breadcrumb"}

\* the pattern types a keyword of which the normalized name contains
NavTypesOf(name) ==
    {NAV_PATTERNS[g].key : g \in {h \in 1..Len(NAV_PATTERNS) :
        \E kw \in NAV_PATTERNS[h].keys : Contains(NameKey(name), kw)}}

\* the first of them in the order of the pattern table
FirstNavType(name) ==
    NAV_PATTERNS[CHOOSE g \in 1..Len(NAV_PATTERNS) :
        /\ NAV_PATTERNS[g].key \in NavTypesOf(name)
        /\ \A h \in 1..(g - 1) : NAV_PATTERNS[h].key \notin NavTypesOf(name)].key

\* the Navigation features of the result for a top-level node and a type
NavFeatures(t, type) ==
    {i \in 1..Len(call.ret) :
        /\ call.ret[i].detector = "navigation"
        /\ call.ret[i].screen_id = call.arg[t].id
        /\ call.ret[i].detail.pattern_type = type}

NavTierOk(t, type) ==
    \A i \in NavFeatures(t, type) :
        call.ret[i].tier = IF type \in {"header", "back_button"} THEN 1 ELSE 2

\* C26 (as stated): for every screen and every nav pattern type exactly one
\* Navigation feature is emitted if and only if at least one named node of
\* the screen's subtree has a normalized name containing a keyword of that
\* type, a node whose name contains keywords of several types counting for
\* each of them; the tier is 1 for header and back_button and 2 otherwise.
C26_NavFeaturePerTypeMatched ==
    (call.fn = "run_all_detectors" /\ call.done) =>
        \A t \in DocScreens : \A type \in NavTypes :
            /\ Cardinality(NavFeatures(t, type)) =
                  IF \E n \in Subtree(call.arg[t]) :
                        n.name # "" /\ type \in NavTypesOf(n.name)
                  THEN 1 ELSE 0
            /\ NavTierOk(t, type)

\* C26 (amended): a node counts for one type only, the first type in the
\* order tab_bar, sidebar, back_button, header, breadcrumb of which its
\* normalized name contains a keyword; exactly one Navigation feature is
\* emitted for a screen and a type if and only if at least one named node of
\* the screen's subtree counts for that type; tiers as stated.
C26_NavFeaturePerFirstTypeMatched ==
    (call.fn = "run_all_detectors" /\ call.done) =>
        \A t \in DocScreens : \A type \in NavTypes :
            /\ Cardinality(NavFeatures(t, type)) =
                  IF \E n \in Subtree(call.arg[t]) :
                        /\ n.name # ""
                        /\ NavTypesOf(n.name) # {}
                        /\ FirstNavType(n.name) = type
                  THEN 1 ELSE 0
            /\ NavTierOk(t, type)

\* a screen whose only navigation element is named "Back Header" has a
\* back_button feature of tier 1 and no header feature, and a screen with a
\* "Bottom Nav" has a tab_bar feature of tier 2
C26_Witness ==
    /\ call.fn = "run_all_detectors"
    /\ call.done
    /\ Len(call.arg) = 2
    /\ DocScreens = {1, 2}
    /\ \E n \in Subtree(call.arg[1]) : n.name = "Back Header"
    /\ \A n \in Subtree(call.arg[1]) : n.name \notin {"Top-Bar", "Bottom Nav"}
    /\ \E i \in NavFeatures(1, "back_button") : call.ret[i].tier = 1
    /\ NavFeatures(1, "header") = {}
    /\ \E n \in Subtree(call.arg[2]) : n.name = "Bottom Nav"
    /\ \E i \in NavFeatures(2, "tab_bar") : call.ret[i].tier = 2
\* the reusable nodes of the call's document
ReusableNodes ==
    UNION {{n \in Subtree(call.arg[t]) : n.reusable} : t \in 1..Len(call.arg)}

\* the positions of the reference nodes with the given ref in the walk of a
\* top-level node
RefsTo(t, id) ==
    {p \in 1..Len(walk(call.arg[t])) :
        walk(call.arg[t])[p].type = "ref" /\ walk(call.arg[t])[p].ref = id}

\* the Component features of the result for a node id
ComponentFeatures(id) ==
    {i \in 1..Len(call.ret) :
        call.ret[i].detector = "component" /\ call.ret[i].screen_id = id}

\* C27: ComponentDetector.detect emits exactly one tier-1 feature per reusable
\* node anywhere in the tree; its usage_count is the number of reference
\* nodes under any screen (a non-reusable top-level frame) whose ref is the
\* component's id; screens_used lists each owning screen name at most once.
C27_ComponentUsage ==
    (call.fn = "run_all_detectors" /\ call.done) =>
        /\ \A c \in ReusableNodes :
              /\ Cardinality(ComponentFeatures(c.id)) = 1
              /\ \A i \in ComponentFeatures(c.id) :
                    /\ call.ret[i].tier = 1
                    /\ call.ret[i].detail.usage_count =
                          SumOver(DocScreens, [t \in DocScreens |-> Cardinality(RefsTo(t, c.id))])
                    /\ \A j, k \in 1..Len(call.ret[i].detail.screens_used) :
                          call.ret[i].detail.screens_used[j]
                              = call.ret[i].detail.screens_used[k] => j = k
                    /\ \A name \in {call.arg[t].name : t \in DocScreens} :
                          (\E j \in 1..Len(call.ret[i].detail.screens_used) :
                              call.ret[i].detail.screens_used[j] = name)
                          <=> \E t \in DocScreens :
                                 call.arg[t].name = name /\ RefsTo(t, c.id) # {}
        /\ \A i \in 1..Len(call.ret) :
              call.ret[i].detector = "component"
                  => \E c \in ReusableNodes : call.ret[i].screen_id = c.id

\* a reusable top-level frame s2 with two instances in the screen before it,
\* one of them below a nested frame: usage_count is 2 and the screen is
\* listed once
C27_Witness ==
    /\ call.fn = "run_all_detectors"
    /\ call.done
    /\ Len(call.arg) = 2
    /\ DocScreens = {1}
    /\ call.arg[2].reusable
    /\ Cardinality(RefsTo(1, "s2")) = 2
    /\ \E k \in 1..Len(call.arg[1].children) : call.arg[1].children[k].type = "frame"
    /\ \E i \in ComponentFeatures("s2") :
          /\ call.ret[i].detail.usage_count = 2
          /\ call.ret[i].detail.screens_used = <<call.arg[1].name>>

\* C30: in the output of one run_all_detectors call, every feature of the
\* navigation, form, data_display, interactive or crud detector has the
\* screen_id of a Screen feature of the same run, also for top-level frames
\* named like a design-system container.
C30_NoOrphanScreenFeatures ==
    (call.fn = "run_all_detectors" /\ call.done) =>
        \A i \in 1..Len(call.ret) :
            call.ret[i].detector \in {"navigation", "form", "data_display",
                                      "interactive", "crud"}
                => \E j \in 1..Len(call.ret) :
                      /\ call.ret[j].detector = "screen"
                      /\ call.ret[j].screen_id = call.ret[i].screen_id
(***************************************************************************)
(* Recovery from the backup (specification SpecRecover): the state file is *)
(* damaged, the backup holds the state 0; one process saves, a reader      *)
(* loads at any moment.                                                    *)
(***************************************************************************)
InitRecover ==
    /\ StoreAtRest
    /\ DiskAtRest(Garbage, Full(0))
    /\ call = NoCall

SpecRecover == InitRecover /\ [][NextSave]_vars

\* C28: starting from a corrupt state file with a valid backup, load_state
\* returns the backup's state S (here 0); while the following save_state of
\* S' (here 1) has not begun or was interrupted, whichever step it was
\* interrupted after, a load_state returns S or S', never a fresh empty
\* state.
C28_RecoveryNotLost ==
    (/\ loaded.called
     /\ ~loaded.t_oserror
     /\ ~loaded.b_oserror
     /\ saves <= 1
     /\ faults = 0
     /\ pc[1] = "idle"
     /\ outcome[1] \in {"none", "killed"})
        => /\ ~loaded.result.raised
           /\ ~loaded.result.data.fresh
           /\ loaded.result.data.v \in {0, 1}
(***************************************************************************)
(* The stored statistics (specification Spec).                             *)
(***************************************************************************)
\* C29: after every call of merge_scan, resolve_feature or match_codebase
\* (not a dry run) on a state that holds features, the stored stats of the
\* state are compute_completion of its features.
C29_StatsNeverStale ==
    (/\ state.features # <<>>
     /\ \/ last.op \in {"merge_scan", "resolve_feature"}
        \/ (last.op = "match_codebase" /\ ~last.dry_run))
        => state.stats = compute_completion(state.features)

====
